---- MODULE Spec2Model ----
(***************************************************************************)
(* A model of the asynchronous core of LukeHagar/stats-action:             *)
(*   - getReposContributorsStats, the contributor-stats retrier            *)
(*     (src/src/index.ts, its newer revision in src/unnamed/part_000 and   *)
(*     the legacy revision in src/src/octokit.ts);                         *)
(*   - processBatched, the batch dispatcher (src/src/index.ts);            *)
(*   - getContributionCollection, the per-year merge;                      *)
(*   - main, the run from the token check to the output file.              *)
(* Promises are modelled as records [state, value]; an await is a guard on *)
(* the awaited promise being settled; every request to GitHub answers      *)
(* nondeterministically.                                                   *)
(***************************************************************************)
EXTENDS Integers, Sequences, FiniteSets, TLC

VARIABLES
  variant,      \* which revision of the code is running
  stats,        \* per repository: the state of its getReposContributorsStats call
  log,          \* per repository: the requests made for it and their answers
  \* processBatched
  pbPc,         \* "idle", "loop", "await", "returned" or "rejected"
  pbKind,       \* the processor: "generic", "stats" or "views"
  items,        \* the items argument
  batchSize,    \* the batchSize argument
  pbI,          \* the loop variable i
  results,      \* the results array
  procs,        \* generic processor: the promises of the current batch
  order,        \* generic processor: batch positions in the order they settled
  failing,      \* generic processor: the item indices whose call fails
  calls,        \* generic processor: the item indices it was called with
  \* getContributionCollection
  gccPc,        \* "idle", "await" or "done"
  nYears,       \* the number of years from the account's creation to now
  fetched,      \* per year: "pending", "ok" or "failed", the fate of its query
  yearProm,     \* per year: the promise pushed to promises
  yearResp,     \* per year: the collection object of its response
  received,     \* per year: the collection as it was received
  gcc,          \* the promise getContributionCollection returned
  settledOrder, \* the years in the order in which their queries settled
  \* main
  mainPc,       \* where main is
  token,        \* whether GITHUB_TOKEN is set
  mainFetch,    \* the four other fetches of the first Promise.all
  nRepos,       \* the number of repositories of the user
  views,        \* per repository: the promise of getReposViewCount
  contribStatsResults,
  viewCountResults,
  totals,       \* linesAdded, linesDeleted, commitCount and repoViews
  failedRun,    \* whether core.setFailed was called
  written,      \* whether github-user-stats.json was written
  \* the pure functions, called on their own
  fn,           \* the function that is called, or "none"
  fnPc,         \* "idle", "called" or "returned"
  fnArgs,       \* its arguments
  fnRet         \* what it returned

retrierVars == <<stats, log>>
pbVars == <<pbPc, pbKind, items, batchSize, pbI, results, procs, order, failing, calls>>
mergeVars == <<gccPc, nYears, fetched, yearProm, yearResp, received, gcc,
               settledOrder>>
mainRest == <<mainPc, token, mainFetch, nRepos, contribStatsResults,
              viewCountResults, totals, failedRun, written>>
mainVars == <<views, mainRest>>
fnVars == <<fn, fnPc, fnArgs, fnRet>>
vars == <<variant, retrierVars, pbVars, mergeVars, mainVars, fnVars>>

-----------------------------------------------------------------------------
(* Bounds of the model *)

\* number of repositories fetched concurrently
MaxRepos == 2
\* length of the items given to processBatched with the generic processor
MaxItems == 4
\* largest batch size tried with the generic processor
MaxBatchSize == 3
\* number of calendar years from the account's creation to now
MaxYears == 2
\* number of days of a contribution calendar given to calculateContributionStats
MaxDays == 4
\* number of days in a week of such a calendar
MaxWeekLen == 2

(* Program constants *)

\* src/src/index.ts:18
MAX_RETRY_COUNT == 5
\* src/unnamed/part_000:21
MAX_RETRY_COUNT_NEXT == 10

Repos == 1..MaxRepos

-----------------------------------------------------------------------------
(* Values *)

\* the login of the authenticated user and of somebody else
Me == "me"
Other == "other"

\* What the contributor-stats endpoint can send as data: a list of
\* contributors, each with its weeks of additions, deletions and commits.
Week(a, d, c) == [a |-> a, d |-> d, c |-> c]
StatsPayloads ==
  { <<>>,
    << [login |-> Me, weeks |-> << Week(3, 1, 1) >>] >>,
    << [login |-> Other, weeks |-> << Week(7, 7, 7) >>],
       [login |-> Me, weeks |-> << Week(1, 0, 2), Week(0, 2, 1) >>] >> }

\* a REST response; 202 carries no data
Response(status, data) == [status |-> status, data |-> data]
Accepted == Response(202, <<>>)
StatsResponses == {Accepted} \cup {Response(200, p) : p \in StatsPayloads}

\* JavaScript's undefined, as a value of the same shape as a response
Undefined == Response(0, <<>>)

\* a promise: pending, fulfilled with a value, or rejected
Pending == [state |-> "pending", value |-> Undefined]
Fulfilled(v) == [state |-> "fulfilled", value |-> v]
Rejected == [state |-> "rejected", value |-> Undefined]

\* no pure function is called on its own
FnIdle ==
  /\ fn = "none"
  /\ fnPc = "idle"
  /\ fnArgs = <<>>
  /\ fnRet = <<>>

-----------------------------------------------------------------------------
(* getReposContributorsStats(octokit, owner, repo, retryCount = 0)         *)

\* the retry cap of the running revision
RetryCap(v) == IF v = "part_000" THEN MAX_RETRY_COUNT_NEXT ELSE MAX_RETRY_COUNT

\* A call that has not been made yet. phase is where the call chain is,
\* retryCount the argument of its innermost running call (0 once it has
\* returned), stray the request the legacy revision makes from its timer,
\* result the promise the outermost call returned.
StatsIdle ==
  [phase |-> "idle", retryCount |-> 0, stray |-> "none", result |-> Pending]

\* retryCount >= MAX_RETRY_COUNT, off by one
RetryCapReachedLate(retryCount, cap) == retryCount > cap

\* index.ts:331  if (retryCount >= MAX_RETRY_COUNT)
RetryCapReached(retryCount, cap) == retryCount >= cap

\* the call itself: the request is issued before the first await
StatsCalled(s) == [s EXCEPT !.phase = "inflight"]

\* index.ts:330-342: the awaited request resolved with resp
OnStatsResponse(s, resp, cap) ==
  IF resp.status = 202
    THEN IF RetryCapReached(s.retryCount, cap)
           THEN [s EXCEPT !.phase = "done", !.retryCount = 0,
                          !.result = Fulfilled(Undefined)]
           ELSE [s EXCEPT !.phase = "delay"]
    ELSE [s EXCEPT !.phase = "done", !.retryCount = 0, !.result = Fulfilled(resp)]

\* index.ts:343-346: the awaited request rejected; the catch returns undefined
OnStatsError(s) ==
  [s EXCEPT !.phase = "done", !.retryCount = 0, !.result = Fulfilled(Undefined)]

\* index.ts:338-339: the delay is over, the recursive call issues its request
OnRetryTimer(s) == [s EXCEPT !.phase = "inflight", !.retryCount = @ + 1]

\* octokit.ts:202-212: .then((res) => { if 202, setTimeout(...); return res })
LegacyOnStatsResponse(s, resp) ==
  [s EXCEPT !.phase = "done",
            !.stray = IF resp.status = 202 THEN "timer" ELSE "none",
            !.result = Fulfilled(resp)]

\* octokit.ts:213-217: .catch((error) => { throw new Error(...) })
LegacyOnStatsError(s) == [s EXCEPT !.phase = "done", !.result = Rejected]

\* octokit.ts:204-209: the timer's callback issues a request nobody awaits
LegacyOnTimer(s) == [s EXCEPT !.stray = "inflight"]

\* octokit.ts:205-208: the answer to that request is returned to the timer,
\* which drops it
LegacyOnStrayAnswer(s, resp) == [s EXCEPT !.stray = "dropped"]

\* octokit.ts:205-208: that request fails and nothing handles the rejection
LegacyOnStrayError(s) == [s EXCEPT !.stray = "unhandled"]

IsLegacy == variant = "octokit.ts"

\* a caller invokes getReposContributorsStats for repository r
StatsCall(r) ==
  /\ stats[r].phase = "idle"
  /\ stats' = [stats EXCEPT ![r] = StatsCalled(@)]
  /\ UNCHANGED <<variant, fnVars, pbVars, mergeVars, mainVars>>

\* the request in flight for r answers with resp
StatsAnswer(r, resp) ==
  /\ stats[r].phase = "inflight"
  /\ stats' = [stats EXCEPT ![r] =
                 IF IsLegacy THEN LegacyOnStatsResponse(@, resp)
                 ELSE OnStatsResponse(@, resp, RetryCap(variant))]
  /\ UNCHANGED <<variant, fnVars, pbVars, mergeVars, mainVars>>

\* the request in flight for r fails (network error, 4xx, 5xx)
StatsFail(r) ==
  /\ stats[r].phase = "inflight"
  /\ stats' = [stats EXCEPT ![r] =
                 IF IsLegacy THEN LegacyOnStatsError(@) ELSE OnStatsError(@)]
  /\ UNCHANGED <<variant, fnVars, pbVars, mergeVars, mainVars>>

\* the retry delay of r elapses
StatsRetry(r) ==
  /\ ~IsLegacy
  /\ stats[r].phase = "delay"
  /\ stats' = [stats EXCEPT ![r] = OnRetryTimer(@)]
  /\ UNCHANGED <<variant, fnVars, pbVars, mergeVars, mainVars>>

\* legacy revision: the timer set on a 202 fires
LegacyTimer(r) ==
  /\ IsLegacy
  /\ stats[r].stray = "timer"
  /\ stats' = [stats EXCEPT ![r] = LegacyOnTimer(@)]
  /\ UNCHANGED <<variant, fnVars, pbVars, mergeVars, mainVars>>

\* legacy revision: the request of the timer answers with resp
LegacyStrayAnswer(r, resp) ==
  /\ IsLegacy
  /\ stats[r].stray = "inflight"
  /\ stats' = [stats EXCEPT ![r] = LegacyOnStrayAnswer(@, resp)]
  /\ UNCHANGED <<variant, fnVars, pbVars, mergeVars, mainVars>>

\* legacy revision: the request of the timer fails
LegacyStrayFail(r) ==
  /\ IsLegacy
  /\ stats[r].stray = "inflight"
  /\ stats' = [stats EXCEPT ![r] = LegacyOnStrayError(@)]
  /\ UNCHANGED <<variant, fnVars, pbVars, mergeVars, mainVars>>

\* The endpoint's side, kept when the retrier is studied on its own: the
\* number of requests it got for r, what it answered, whether one failed.
LogIdle == [requests |-> 0, responses |-> <<>>, thrown |-> FALSE]
LogRequest(r) == log' = [log EXCEPT ![r].requests = @ + 1]
LogAnswer(r, resp) == log' = [log EXCEPT ![r].responses = Append(@, resp)]
LogFailure(r) == log' = [log EXCEPT ![r].thrown = TRUE]

-----------------------------------------------------------------------------
(* processBatched(items, batchSize, processor)                             *)

Min(a, b) == IF a < b THEN a ELSE b

\* no call of processBatched is running
PbIdle ==
  /\ pbPc = "idle"
  /\ pbKind = "generic"
  /\ items = <<>>
  /\ batchSize = 1
  /\ pbI = 0
  /\ results = <<>>
  /\ procs = <<>>
  /\ order = <<>>
  /\ failing = {}
  /\ calls = <<>>

\* a pending promise of the generic processor, whose values are numbers
PendingNum == [state |-> "pending", value |-> 0]

\* the values the items of the generic processor take
ItemValues == {1, 2}

\* index.test.ts:210-213  async (item) => item * 2
Processor(item) == item * 2

\* index.ts:44  items.slice(i, i + batchSize), as the indices it covers
BatchIndices(its, i, size) == (i + 1)..Min(i + size, Len(its))

\* the indices of every item that is left, ascending
RestOfItems(its, i, size) ==
  [j \in 1..(Len(its) - i) |-> i + j]

\* the indices of the batch, ascending
BatchSeq(its, i, size) ==
  [j \in 1..(Min(i + size, Len(its)) - i) |-> i + j]

\* the settled results taken in the order in which the promises settled
AllSettledInCompletionOrder(proms, ord) ==
  IF \A j \in 1..Len(proms) : proms[j].state # "pending"
    THEN [state |-> "fulfilled",
          value |-> [k \in 1..Len(proms) |-> proms[ord[k]]]]
    ELSE [state |-> "pending", value |-> <<>>]

\* Promise.all: rejects with the first rejection, fulfils when all did
PromiseAll(proms, ord) ==
  IF \E j \in 1..Len(proms) : proms[j].state = "rejected"
    THEN [state |-> "rejected", value |-> <<>>]
    ELSE IF \A j \in 1..Len(proms) : proms[j].state = "fulfilled"
           THEN [state |-> "fulfilled", value |-> proms]
           ELSE [state |-> "pending", value |-> <<>>]

\* Promise.race-like: settles as soon as one promise has settled
FirstSettled(proms, ord) ==
  IF Len(proms) = 0 \/ \E j \in 1..Len(proms) : proms[j].state # "pending"
    THEN [state |-> "fulfilled", value |-> proms]
    ELSE [state |-> "pending", value |-> <<>>]

\* index.ts:45  Promise.allSettled(batch.map(processor)): pending until every
\* promise has settled, then fulfilled with the outcomes in the order of the
\* promises; ord, the order in which they settled, plays no part
AllSettled(proms, ord) ==
  IF \A j \in 1..Len(proms) : proms[j].state # "pending"
    THEN [state |-> "fulfilled", value |-> proms]
    ELSE [state |-> "pending", value |-> <<>>]

\* a view-count response, index.ts:352-362; the accumulation reads data.count
ViewResponse(status, count) == [status |-> status, data |-> [count |-> count]]
\* the counts GitHub can report for a repository
ViewCounts == {1, 4}
\* the promise of getReposViewCount: not called, in flight
ViewNotCalled == [state |-> "idle", value |-> ViewResponse(0, 0)]
ViewPending == [state |-> "pending", value |-> ViewResponse(0, 0)]

\* index.ts:36-41: the entry of processBatched
PbCalled(kind, its, size) ==
  /\ pbPc' = "loop"
  /\ pbKind' = kind
  /\ items' = its
  /\ batchSize' = size
  /\ pbI' = 0
  /\ results' = <<>>

\* index.ts:36-41: processBatched is called with the generic processor
PbCall ==
  /\ pbPc = "idle"
  /\ pbKind = "generic"
  /\ PbCalled("generic", items, batchSize)
  /\ UNCHANGED <<procs, order, failing, calls, variant, fnVars, retrierVars,
                 mergeVars, mainVars>>

\* index.ts:45  batch.map(processor): the processor is called on every item
\* of the batch, in order, before anything is awaited
StartProcessors(batch) ==
  LET inBatch(r) == \E j \in 1..Len(batch) : items[batch[j]] = r IN
  CASE pbKind = "generic" ->
         /\ procs' = [j \in 1..Len(batch) |-> PendingNum]
         /\ calls' = calls \o batch
         /\ UNCHANGED <<stats, views>>
    [] pbKind = "stats" ->
         \* index.ts:645  (repo) => getReposContributorsStats(...)
         /\ stats' = [r \in Repos |->
                        IF inBatch(r) THEN StatsCalled(stats[r]) ELSE stats[r]]
         /\ UNCHANGED <<procs, calls, views>>
    [] pbKind = "views" ->
         \* index.ts:655  (repo) => getReposViewCount(...)
         /\ views' = [r \in Repos |->
                        IF inBatch(r) THEN ViewPending ELSE views[r]]
         /\ UNCHANGED <<procs, calls, stats>>

\* the promises batch.map(processor) returned, in the order of the batch
BatchPromises ==
  LET n == Min(pbI + batchSize, Len(items)) - pbI IN
  CASE pbKind = "generic" -> procs
    [] pbKind = "stats" -> [j \in 1..n |-> stats[items[pbI + j]].result]
    [] pbKind = "views" -> [j \in 1..n |-> views[items[pbI + j]]]

\* index.ts:43-45: the loop condition holds; the batch is sliced and the
\* processor called on each of its items
PbStartBatch ==
  /\ pbPc = "loop"
  /\ pbI < Len(items)
  /\ StartProcessors(BatchSeq(items, pbI, batchSize))
  /\ order' = <<>>
  /\ pbPc' = "await"
  /\ UNCHANGED <<pbKind, items, batchSize, pbI, results, failing,
                 variant, fnVars, log, mergeVars, mainRest>>

\* the generic processor's promise for position j of the batch settles
PbSettle(j) ==
  /\ pbPc = "await"
  /\ pbKind = "generic"
  /\ j \in 1..Len(procs)
  /\ procs[j].state = "pending"
  /\ procs' = [procs EXCEPT ![j] =
                 IF (pbI + j) \in failing
                   THEN [state |-> "rejected", value |-> 0]
                   ELSE [state |-> "fulfilled", value |-> Processor(items[pbI + j])]]
  /\ order' = Append(order, j)
  /\ UNCHANGED <<pbPc, pbKind, items, batchSize, pbI, results, failing, calls,
                 variant, fnVars, retrierVars, mergeVars, mainVars>>

\* index.ts:45-47: the await of Promise.allSettled ends; results.push and
\* i += batchSize. (Were the awaited promise rejected, processBatched would
\* reject.)
PbBatchSettled ==
  /\ pbPc = "await"
  /\ LET o == AllSettled(BatchPromises, order) IN
       /\ o.state # "pending"
       /\ IF o.state = "fulfilled"
            THEN /\ results' = results \o o.value
                 /\ pbI' = pbI + batchSize
                 /\ pbPc' = "loop"
            ELSE /\ pbPc' = "rejected"
                 /\ UNCHANGED <<results, pbI>>
  /\ UNCHANGED <<pbKind, items, batchSize, procs, order, failing, calls,
                 variant, fnVars, retrierVars, mergeVars, mainVars>>

\* index.ts:43,49: the loop condition fails; return results
PbReturn ==
  /\ pbPc = "loop"
  /\ pbI >= Len(items)
  /\ pbPc' = "returned"
  /\ UNCHANGED <<pbKind, items, batchSize, pbI, results, procs, order,
                 failing, calls, variant, fnVars, retrierVars, mergeVars, mainVars>>

-----------------------------------------------------------------------------
(* getContributionCollection(octokit, createdAt)                           *)

Years == 1..MaxYears

Day(y, m, d, count) == [date |-> <<y, m, d>>, contributionCount |-> count]

\* the shape of a contributionsCollection; commitContributionsByRepository is
\* queried by the legacy revision only
Collection(commits, restricted, issues, repositories, prs, reviews, total, weeks, byRepo) ==
  [totalCommitContributions |-> commits,
   restrictedContributionsCount |-> restricted,
   totalIssueContributions |-> issues,
   totalRepositoryContributions |-> repositories,
   totalPullRequestContributions |-> prs,
   totalPullRequestReviewContributions |-> reviews,
   contributionCalendar |-> [totalContributions |-> total, weeks |-> weeks],
   commitContributionsByRepository |-> byRepo]

\* the slot of a response that has not arrived
NoCollection == Collection(0, 0, 0, 0, 0, 0, 0, <<>>, <<>>)

\* what GitHub can answer for year y: a busy year, a quiet one or one
\* without any contribution
YearAnswers(y) ==
  { NoCollection,
    Collection(2, 1, 1, 0, 1, 2, 3,
               << <<Day(y, 1, 1, 1), Day(y, 1, 2, 0)>>, <<Day(y, 2, 1, 2)>> >>,
               << y >>),
    Collection(1, 0, 0, 1, 0, 0, 1,
               << <<Day(y, 3, 1, 1)>> >>,
               <<>>) }

\* no call of getContributionCollection is running
MergeIdle ==
  /\ gccPc = "idle"
  /\ nYears = 1
  /\ fetched = [y \in Years |-> "pending"]
  /\ yearProm = [y \in Years |-> [state |-> "pending", value |-> "none"]]
  /\ yearResp = [y \in Years |-> NoCollection]
  /\ received = [y \in Years |-> NoCollection]
  /\ gcc = [state |-> "pending", value |-> NoCollection]
  /\ settledOrder = <<>>

\* index.ts:230-233  .then((response) => { logRateLimit(...); return response })
OnYearResponse == [state |-> "fulfilled", value |-> "response"]

\* a catch that stands a failed year in as an empty response
OnYearErrorAsEmpty == [state |-> "fulfilled", value |-> "response"]

\* index.ts:234-237  .catch((error) => { console.error(...); return null })
OnYearError == [state |-> "fulfilled", value |-> "null"]

\* octokit.ts:141-145  .catch((error) => { throw new Error(...) })
LegacyOnYearError == [state |-> "rejected", value |-> "none"]

\* index.ts:241-248: the years kept by the filter, ascending
\* (result.status === "fulfilled" && result.value !== null)
KeptYears(proms, n) ==
  {y \in 1..n : proms[y].state = "fulfilled" /\ proms[y].value # "null"}

\* the elements of a set of numbers as a descending sequence
RECURSIVE Descending(_)
Descending(S) ==
  IF S = {} THEN <<>>
  ELSE LET m == CHOOSE x \in S : \A z \in S : x >= z
       IN <<m>> \o Descending(S \ {m})

\* the elements of a set of numbers as an ascending sequence
RECURSIVE Ascending(_)
Ascending(S) ==
  IF S = {} THEN <<>>
  ELSE LET m == CHOOSE x \in S : \A z \in S : x <= z
       IN <<m>> \o Ascending(S \ {m})

\* one round of a loop that appends the weeks and adds the counters but
\* leaves the calendar's total alone
MergeYearKeepingTotal(acc, year) ==
  [acc EXCEPT
     !.contributionCalendar.weeks = @ \o year.contributionCalendar.weeks,
     !.totalCommitContributions = @ + year.totalCommitContributions,
     !.restrictedContributionsCount = @ + year.restrictedContributionsCount,
     !.totalIssueContributions = @ + year.totalIssueContributions,
     !.totalRepositoryContributions = @ + year.totalRepositoryContributions,
     !.totalPullRequestContributions = @ + year.totalPullRequestContributions,
     !.totalPullRequestReviewContributions =
        @ + year.totalPullRequestReviewContributions]

\* index.ts:257-280: one round of the loop over years.slice(1)
MergeYear(acc, year) ==
  [acc EXCEPT
     !.contributionCalendar.totalContributions =
        @ + year.contributionCalendar.totalContributions,
     !.contributionCalendar.weeks = @ \o year.contributionCalendar.weeks,
     !.totalCommitContributions = @ + year.totalCommitContributions,
     !.restrictedContributionsCount = @ + year.restrictedContributionsCount,
     !.totalIssueContributions = @ + year.totalIssueContributions,
     !.totalRepositoryContributions = @ + year.totalRepositoryContributions,
     !.totalPullRequestContributions = @ + year.totalPullRequestContributions,
     !.totalPullRequestReviewContributions =
        @ + year.totalPullRequestReviewContributions]

\* octokit.ts:163-174: one round of the legacy loop
LegacyMergeYear(acc, year) ==
  [acc EXCEPT
     !.commitContributionsByRepository =
        @ \o year.commitContributionsByRepository,
     !.contributionCalendar.totalContributions =
        @ + year.contributionCalendar.totalContributions,
     !.contributionCalendar.weeks = @ \o year.contributionCalendar.weeks]

\* index.ts:254-283: years[0]'s collection with every later year merged in
RECURSIVE MergeYears(_, _, _)
MergeYears(acc, rest, legacy) ==
  IF rest = <<>> THEN acc
  ELSE MergeYears(IF legacy THEN LegacyMergeYear(acc, Head(rest))
                  ELSE MergeYear(acc, Head(rest)),
                  Tail(rest), legacy)

\* index.ts:241 Promise.allSettled(promises), octokit.ts:151
\* Promise.all(promises): whether the await is over, and how
YearsAwait(proms, n, legacy) ==
  IF legacy
    THEN IF \E y \in 1..n : proms[y].state = "rejected" THEN "rejected"
         ELSE IF \A y \in 1..n : proms[y].state = "fulfilled" THEN "fulfilled"
         ELSE "pending"
    ELSE IF \A y \in 1..n : proms[y].state # "pending" THEN "fulfilled"
         ELSE "pending"

\* index.ts:182-239: the call; one query per year is issued
GccStarted ==
  /\ gccPc' = "await"
  /\ UNCHANGED <<nYears, fetched, yearProm, yearResp, received, gcc, settledOrder>>

GccCall ==
  /\ gccPc = "idle"
  /\ mainPc = "off"
  /\ GccStarted
  /\ UNCHANGED <<variant, fnVars, retrierVars, pbVars, mainVars>>

\* the query of year y answers
YearAnswer(y) ==
  /\ gccPc # "idle"
  /\ y <= nYears
  /\ fetched[y] = "pending"
  /\ \E c \in YearAnswers(y) :
       /\ yearResp' = [yearResp EXCEPT ![y] = c]
       /\ received' = [received EXCEPT ![y] = c]
  /\ fetched' = [fetched EXCEPT ![y] = "ok"]
  /\ yearProm' = [yearProm EXCEPT ![y] = OnYearResponse]
  /\ UNCHANGED <<gccPc, nYears, gcc, variant, fnVars, retrierVars, pbVars, mainVars>>

\* the query of year y fails
YearFail(y) ==
  /\ gccPc # "idle"
  /\ y <= nYears
  /\ fetched[y] = "pending"
  /\ fetched' = [fetched EXCEPT ![y] = "failed"]
  /\ yearProm' = [yearProm EXCEPT ![y] =
                    IF IsLegacy THEN LegacyOnYearError ELSE OnYearError]
  /\ UNCHANGED <<gccPc, nYears, yearResp, received, gcc,
                 variant, fnVars, retrierVars, pbVars, mainVars>>

\* index.ts:241-283: the await ends; filter, throw when no year is left,
\* otherwise merge into the first year's collection and return it
GccSettled ==
  /\ gccPc = "await"
  /\ LET how == YearsAwait(yearProm, nYears, IsLegacy)
         kept == Ascending(KeptYears(yearProm, nYears)) IN
       /\ how # "pending"
       /\ IF how = "rejected" \/ Len(kept) = 0
            THEN /\ gcc' = [state |-> "rejected", value |-> NoCollection]
                 /\ UNCHANGED yearResp
            ELSE LET merged ==
                       MergeYears(yearResp[kept[1]],
                                  [k \in 1..(Len(kept) - 1) |-> yearResp[kept[k + 1]]],
                                  IsLegacy) IN
                 /\ gcc' = [state |-> "fulfilled", value |-> merged]
                 /\ yearResp' = [yearResp EXCEPT ![kept[1]] = merged]
  /\ gccPc' = "done"
  /\ UNCHANGED <<nYears, fetched, yearProm, received, settledOrder,
                 variant, fnVars, retrierVars, pbVars, mainVars>>

\* The order in which the queries settled, kept when
\* getContributionCollection is studied on its own.
LogYear(y) == settledOrder' = Append(settledOrder, y)

-----------------------------------------------------------------------------
(* main                                                                    *)

\* src/src/index.ts:19
BATCH_SIZE == 10

NoTotals == [linesAdded |-> 0, linesDeleted |-> 0, commitCount |-> 0, repoViews |-> 0]

\* main is not running
MainIdle ==
  /\ mainPc = "off"
  /\ token = TRUE
  /\ mainFetch = "idle"
  /\ nRepos = 0
  /\ views = [r \in Repos |-> ViewNotCalled]
  /\ contribStatsResults = <<>>
  /\ viewCountResults = <<>>
  /\ totals = NoTotals
  /\ failedRun = FALSE
  /\ written = FALSE

\* a token check that lets a missing token through
TokenNeverMissing(t) == FALSE

\* index.ts:530  if (!token)
TokenMissing(t) == ~t

\* index.ts:569-576  Promise.all of getUserData, getRepoData, getTotalCommits
\* and getUsersStars (fetch, taken together) and getContributionCollection
MainData(fetch, coll) ==
  IF fetch = "rejected" \/ coll.state = "rejected" THEN "rejected"
  ELSE IF fetch = "fulfilled" /\ coll.state = "fulfilled" THEN "fulfilled"
  ELSE "pending"

\* index.ts:599-638: repoInfoList, one entry per repository
RepoInfoList(n) == [r \in 1..n |-> r]

\* index.ts:620  isOwner = repoOwner === username; the query of getRepoData
\* never asks for nameWithOwner, so repoOwner is always username
IsOwner(r) == TRUE

\* index.ts:652  repoInfoList.filter((r) => r.isOwner)
OwnedRepos(n) == Ascending({r \in 1..n : IsOwner(r)})

\* the weeks of the first contributor, whoever it is
FirstContributor(data) == IF Len(data) = 0 THEN <<>> ELSE data[1].weeks

\* index.ts:673-675  stats.find((c) => c?.author?.login === username), and
\* its weeks: none when nobody matches
UserStats(data) ==
  LET mine == {k \in 1..Len(data) : data[k].login = Me} IN
  IF mine = {} THEN <<>>
  ELSE data[CHOOSE k \in mine : \A z \in mine : k <= z].weeks

\* index.ts:679-681  if (week.a) linesAdded += week.a; ...
AddWeek(t, week) ==
  [t EXCEPT !.linesAdded = IF week.a # 0 THEN @ + week.a ELSE @,
            !.linesDeleted = IF week.d # 0 THEN @ + week.d ELSE @,
            !.commitCount = IF week.c # 0 THEN @ + week.c ELSE @]

\* index.ts:678-682  for (const week of userStats.weeks)
RECURSIVE AddWeeks(_, _)
AddWeeks(t, weeks) ==
  IF weeks = <<>> THEN t ELSE AddWeeks(AddWeek(t, Head(weeks)), Tail(weeks))

\* index.ts:668-684  for (const result of contribStatsResults)
RECURSIVE AccumulateStats(_, _)
AccumulateStats(t, res) ==
  IF res = <<>> THEN t
  ELSE LET result == Head(res) IN
       IF result.state # "fulfilled" \/ result.value = Undefined
         THEN AccumulateStats(t, Tail(res))
         ELSE AccumulateStats(AddWeeks(t, UserStats(result.value.data)), Tail(res))

\* index.ts:691-696  for (const result of viewCountResults)
RECURSIVE AccumulateViews(_, _)
AccumulateViews(t, res) ==
  IF res = <<>> THEN t
  ELSE LET result == Head(res) IN
       IF result.state = "fulfilled"
         THEN AccumulateViews([t EXCEPT !.repoViews = @ + result.value.data.count],
                              Tail(res))
         ELSE AccumulateViews(t, Tail(res))

\* index.ts:663-816: everything from the accumulation to the output file,
\* then the job summary when the run is inside a workflow
Accumulated(statsResults, viewResults) ==
  /\ contribStatsResults' = statsResults
  /\ viewCountResults' = viewResults
  /\ totals' = AccumulateViews(AccumulateStats(NoTotals, statsResults), viewResults)
  /\ written' = TRUE
  /\ \E workflow \in BOOLEAN : mainPc' = IF workflow THEN "summary" ELSE "done"

\* index.ts:528-534: the token check
MainStart ==
  /\ mainPc = "start"
  /\ IF TokenMissing(token)
       THEN mainPc' = "done" /\ failedRun' = TRUE
       ELSE mainPc' = "auth" /\ UNCHANGED failedRun
  /\ UNCHANGED <<token, mainFetch, nRepos, views, contribStatsResults,
                 viewCountResults, totals, written,
                 variant, fnVars, retrierVars, pbVars, mergeVars>>

\* index.ts:566-576: getAuthenticated answered; the five fetches are started
MainAuthOk ==
  /\ mainPc = "auth"
  /\ mainPc' = "data"
  /\ mainFetch' = "pending"
  /\ GccStarted
  /\ UNCHANGED <<token, nRepos, views, contribStatsResults, viewCountResults,
                 totals, failedRun, written, variant, fnVars, retrierVars, pbVars>>

\* index.ts:566, 824-827: getAuthenticated failed; main rejects and the
\* catch of the entry point reports it
MainAuthFail ==
  /\ mainPc = "auth"
  /\ mainPc' = "done"
  /\ failedRun' = TRUE
  /\ UNCHANGED <<token, mainFetch, nRepos, views, contribStatsResults,
                 viewCountResults, totals, written,
                 variant, fnVars, retrierVars, pbVars, mergeVars>>

\* the four other fetches have all answered
MainFetchOk ==
  /\ mainFetch = "pending"
  /\ mainFetch' = "fulfilled"
  /\ UNCHANGED <<mainPc, token, nRepos, views, contribStatsResults,
                 viewCountResults, totals, failedRun, written,
                 variant, fnVars, retrierVars, pbVars, mergeVars>>

\* one of the four other fetches failed
MainFetchFail ==
  /\ mainFetch = "pending"
  /\ mainFetch' = "rejected"
  /\ UNCHANGED <<mainPc, token, nRepos, views, contribStatsResults,
                 viewCountResults, totals, failedRun, written,
                 variant, fnVars, retrierVars, pbVars, mergeVars>>

\* index.ts:569-576, 640-646: the await of Promise.all ends. A rejection
\* makes main reject, which the entry point reports (index.ts:824-827);
\* otherwise the contributor-stats fetches start: through processBatched in
\* index.ts, all at once in part_000 (752-760), the view counts with them
MainDataSettled ==
  /\ mainPc = "data"
  /\ LET how == MainData(mainFetch, gcc) IN
       /\ how # "pending"
       /\ IF how = "rejected"
            THEN /\ mainPc' = "done"
                 /\ failedRun' = TRUE
                 /\ UNCHANGED <<pbPc, pbKind, items, batchSize, pbI, results,
                                stats, views>>
            ELSE IF variant = "index.ts"
              THEN /\ PbCalled("stats", RepoInfoList(nRepos), BATCH_SIZE)
                   /\ mainPc' = "stats"
                   /\ UNCHANGED <<failedRun, stats, views>>
              ELSE /\ stats' = [r \in Repos |->
                                  IF r <= nRepos THEN StatsCalled(stats[r])
                                  ELSE stats[r]]
                   /\ views' = [r \in Repos |->
                                  IF r <= nRepos /\ IsOwner(r) THEN ViewPending
                                  ELSE views[r]]
                   /\ mainPc' = "fanout"
                   /\ UNCHANGED <<failedRun, pbPc, pbKind, items, batchSize,
                                  pbI, results>>
  /\ UNCHANGED <<token, mainFetch, nRepos, contribStatsResults,
                 viewCountResults, totals, written, procs, order, failing,
                 calls, variant, fnVars, log, mergeVars>>

\* index.ts:642-657: the first processBatched returned; the second is called
\* on the owned repositories
MainStatsReturned ==
  /\ mainPc = "stats"
  /\ pbPc = "returned"
  /\ contribStatsResults' = results
  /\ PbCalled("views", OwnedRepos(nRepos), BATCH_SIZE)
  /\ mainPc' = "views"
  /\ UNCHANGED <<token, mainFetch, nRepos, views, viewCountResults, totals,
                 failedRun, written, procs, order, failing, calls,
                 variant, fnVars, retrierVars, mergeVars>>

\* index.ts:653-802: the second processBatched returned; accumulate and write
MainViewsReturned ==
  /\ mainPc = "views"
  /\ pbPc = "returned"
  /\ Accumulated(contribStatsResults, results)
  /\ UNCHANGED <<token, mainFetch, nRepos, views, failedRun,
                 variant, fnVars, retrierVars, pbVars, mergeVars>>

\* part_000:762-766  await Promise.all([Promise.allSettled(contribStatsPromises),
\* Promise.allSettled(viewCountPromises)]), then accumulate and write
MainFanIn ==
  /\ mainPc = "fanout"
  /\ LET owned == OwnedRepos(nRepos)
         a == AllSettled([r \in 1..nRepos |-> stats[r].result], <<>>)
         b == AllSettled([k \in 1..Len(owned) |-> views[owned[k]]], <<>>) IN
       /\ a.state = "fulfilled"
       /\ b.state = "fulfilled"
       /\ Accumulated(a.value, b.value)
  /\ UNCHANGED <<token, mainFetch, nRepos, views, failedRun,
                 variant, fnVars, retrierVars, pbVars, mergeVars>>

\* index.ts:352-362: the view-count request of r answers
ViewAnswer(r) ==
  /\ views[r].state = "pending"
  /\ \E n \in ViewCounts :
       views' = [views EXCEPT ![r] =
                   [state |-> "fulfilled", value |-> ViewResponse(200, n)]]
  /\ UNCHANGED <<variant, fnVars, retrierVars, pbVars, mergeVars, mainRest>>

\* index.ts:352-362: the view-count request of r fails; nothing catches it
ViewFail(r) ==
  /\ views[r].state = "pending"
  /\ views' = [views EXCEPT ![r] =
                 [state |-> "rejected", value |-> ViewResponse(0, 0)]]
  /\ UNCHANGED <<variant, fnVars, retrierVars, pbVars, mergeVars, mainRest>>

\* index.ts:805-819: the job summary was written; main returns
MainSummaryOk ==
  /\ mainPc = "summary"
  /\ mainPc' = "done"
  /\ UNCHANGED <<token, mainFetch, nRepos, views, contribStatsResults,
                 viewCountResults, totals, failedRun, written,
                 variant, fnVars, retrierVars, pbVars, mergeVars>>

\* index.ts:805-816, 824-827: writing the job summary failed; main rejects
MainSummaryFail ==
  /\ mainPc = "summary"
  /\ mainPc' = "done"
  /\ failedRun' = TRUE
  /\ UNCHANGED <<token, mainFetch, nRepos, views, contribStatsResults,
                 viewCountResults, totals, written,
                 variant, fnVars, retrierVars, pbVars, mergeVars>>

-----------------------------------------------------------------------------
(* calculateContributionStats(contributionsCollection)                     *)
(* Dates are <<year, month, day>>; the order of the ISO strings under      *)
(* localeCompare is the lexicographic order of these tuples. The averages  *)
(* are kept in hundredths.                                                 *)

\* localeCompare(a, b) < 0 on two ISO dates, or on two "YYYY-MM" keys
DateBefore(a, b) ==
  \E k \in 1..Len(a) : a[k] < b[k] /\ \A j \in 1..(k - 1) : a[j] = b[j]

\* index.ts:379  day.date.substring(0, 7)
MonthOf(date) == <<date[1], date[2]>>

\* the days before each month of 2024
DaysBeforeMonth == <<0, 31, 60, 91, 121, 152, 182, 213, 244, 274, 305, 335>>

\* the days from 1 January 2024 to a date of 2023 or 2024; 2023 had 365
\* days and no 29 February
DaysSince2024(date) ==
  IF date[1] = 2024 THEN DaysBeforeMonth[date[2]] + date[3] - 1
  ELSE DaysBeforeMonth[date[2]] - (IF date[2] > 2 THEN 1 ELSE 0) + date[3] - 1 - 365

WeekdayNames ==
  <<"Monday", "Tuesday", "Wednesday", "Thursday", "Friday", "Saturday", "Sunday">>

\* index.ts:383-385  new Date(day.date).toLocaleDateString("en-US",
\* { weekday: "long" }) for a date of 2023 or 2024, 1 January 2024 being a
\* Monday, where the local time zone is UTC
WeekdayOf(date) == WeekdayNames[(DaysSince2024(date) % 7) + 1]

\* index.ts:375-377: the days of the weeks, week after week
RECURSIVE Flatten(_)
Flatten(weeks) == IF weeks = <<>> THEN <<>> ELSE Head(weeks) \o Flatten(Tail(weeks))

\* a Map as the sequence of its entries in insertion order; map.get(key) || 0
MapGet(map, key) ==
  LET at == {k \in 1..Len(map) : map[k].key = key} IN
  IF at = {} THEN 0 ELSE map[CHOOSE k \in at : TRUE].value

\* map.set(key, value): an existing key keeps its place
MapSet(map, key, value) ==
  IF \E k \in 1..Len(map) : map[k].key = key
    THEN [k \in 1..Len(map) |->
            IF map[k].key = key THEN [key |-> key, value |-> value] ELSE map[k]]
    ELSE Append(map, [key |-> key, value |-> value])

\* index.ts:375-392: the two aggregations over the flattened days
RECURSIVE Aggregate(_, _, _)
Aggregate(days, monthlyMap, dayOfWeekCounts) ==
  IF days = <<>> THEN [monthlyMap |-> monthlyMap, dayOfWeekCounts |-> dayOfWeekCounts]
  ELSE LET day == Head(days)
           month == MonthOf(day.date)
           dayOfWeek == WeekdayOf(day.date) IN
       Aggregate(Tail(days),
                 MapSet(monthlyMap, month,
                        MapGet(monthlyMap, month) + day.contributionCount),
                 MapSet(dayOfWeekCounts, dayOfWeek,
                        MapGet(dayOfWeekCounts, dayOfWeek) + day.contributionCount))

\* index.ts:395  allDays.sort((a, b) => a.date.localeCompare(b.date));
\* the sort is stable: a day goes after those of an earlier date and after
\* those of the same date that preceded it
SortDays(q) ==
  LET place(i) ==
        1 + Cardinality({j \in 1..Len(q) : DateBefore(q[j].date, q[i].date)})
          + Cardinality({j \in 1..(i - 1) : q[j].date = q[i].date}) IN
  [p \in 1..Len(q) |-> q[CHOOSE i \in 1..Len(q) : place(i) = p]]

\* the entries of a Map in the order in which they were inserted
EntriesAsInserted(entries) == entries

\* index.ts:449-450  Array.from(monthlyMap.entries()).sort((a, b) =>
\* a[0].localeCompare(b[0])); the keys of a Map are distinct
SortEntries(entries) ==
  [p \in 1..Len(entries) |->
     entries[CHOOSE i \in 1..Len(entries) :
               Cardinality({j \in 1..Len(entries) :
                              DateBefore(entries[j].key, entries[i].key)}) = p - 1]]

Max(a, b) == IF a > b THEN a ELSE b

\* a scan that forgets the run it is in when it ends
LongestWithoutLastRun(longestStreak, tempStreak) == longestStreak

\* index.ts:417  longestStreak = Math.max(longestStreak, tempStreak)
LongestAfterLoop(longestStreak, tempStreak) == Max(longestStreak, tempStreak)

\* index.ts:405-417: the loop from the last day to the first
RECURSIVE LongestScan(_, _, _, _)
LongestScan(allDays, i, longestStreak, tempStreak) ==
  IF i = 0 THEN LongestAfterLoop(longestStreak, tempStreak)
  ELSE IF allDays[i].contributionCount > 0
         THEN LongestScan(allDays, i - 1, longestStreak, tempStreak + 1)
         ELSE LongestScan(allDays, i - 1, Max(longestStreak, tempStreak), 0)

\* index.ts:420-428: the second loop from the last day to the first
RECURSIVE CurrentScan(_, _, _, _)
CurrentScan(allDays, i, today, currentStreak) ==
  IF i = 0 THEN currentStreak
  ELSE IF allDays[i].contributionCount > 0
         THEN CurrentScan(allDays, i - 1, today, currentStreak + 1)
         ELSE IF allDays[i].date # today
                THEN currentStreak
                ELSE CurrentScan(allDays, i - 1, today, currentStreak)

\* index.ts:431-438: the loop over the entries of dayOfWeekCounts
RECURSIVE MostActive(_, _, _)
MostActive(entries, mostActiveDay, maxDayCount) ==
  IF entries = <<>> THEN mostActiveDay
  ELSE IF Head(entries).value > maxDayCount
         THEN MostActive(Tail(entries), Head(entries).key, Head(entries).value)
         ELSE MostActive(Tail(entries), mostActiveDay, maxDayCount)

\* Math.round(x * 100) / 100 for x = num / den >= 0, in hundredths
Round2(num, den) == (200 * num + den) \div (2 * den)

\* seven times the rounded daily average
TimesOfRounded(factor, num, den) == factor * Round2(num, den)

\* index.ts:444-445, 457-458: averagePerDay * factor, then rounded
Times(factor, num, den) == Round2(factor * num, den)

\* index.ts:367-461
CalculateContributionStats(contributionsCollection, today) ==
  LET unsorted == Flatten(contributionsCollection.contributionCalendar.weeks)
      maps == Aggregate(unsorted, <<>>, <<>>)
      allDays == SortDays(unsorted)
      totalDays == IF Len(allDays) = 0 THEN 1 ELSE Len(allDays)
      totalContributions ==
        contributionsCollection.contributionCalendar.totalContributions
      byMonth == SortEntries(maps.monthlyMap) IN
  [longestStreak |-> LongestScan(allDays, Len(allDays), 0, 0),
   currentStreak |-> CurrentScan(allDays, Len(allDays), today, 0),
   mostActiveDay |-> MostActive(maps.dayOfWeekCounts, "Sunday", 0),
   averagePerDay |-> Round2(totalContributions, totalDays),
   averagePerWeek |-> Times(7, totalContributions, totalDays),
   averagePerMonth |-> Times(30, totalContributions, totalDays),
   monthlyBreakdown |->
     [k \in 1..Len(byMonth) |->
        [month |-> byMonth[k].key, contributions |-> byMonth[k].value]]]

\* calculateContributionStats is called and returns
CalcStats ==
  /\ fn = "calculateContributionStats"
  /\ fnPc = "called"
  /\ fnRet' = CalculateContributionStats(fnArgs.contributionsCollection, fnArgs.today)
  /\ fnPc' = "returned"
  /\ UNCHANGED <<fn, fnArgs, variant, retrierVars, pbVars, mergeVars, mainVars>>

-----------------------------------------------------------------------------
(* aggregateLanguages(repos)                                               *)
(* languageMap is the sequence of its entries in insertion order; a        *)
(* percentage is kept in hundredths of a percent.                          *)

\* index.ts:469  an edge of repo.languages.edges
Edge(size, name, color) == [size |-> size, node |-> [name |-> name, color |-> color]]

\* a later edge replaces the value of its language
ValueReplaced(value, size) == size

\* index.ts:480  existing.value += edge.size
ValueAdded(value, size) == value + size

\* one edge, a later edge of a language also setting its color
AddEdgeLastColor(acc, edge) ==
  LET langName == edge.node.name
      languageMap == acc.languageMap IN
  [languageMap |->
     IF \E k \in 1..Len(languageMap) : languageMap[k].key = langName
       THEN [k \in 1..Len(languageMap) |->
               IF languageMap[k].key = langName
                 THEN [key |-> langName, color |-> edge.node.color,
                       value |-> languageMap[k].value + edge.size]
                 ELSE languageMap[k]]
       ELSE Append(languageMap,
                   [key |-> langName, color |-> edge.node.color, value |-> edge.size]),
   codeByteTotal |-> acc.codeByteTotal + edge.size]

\* index.ts:477-487: one edge
AddEdge(acc, edge) ==
  LET langName == edge.node.name
      languageMap == acc.languageMap IN
  [languageMap |->
     IF \E k \in 1..Len(languageMap) : languageMap[k].key = langName
       THEN [k \in 1..Len(languageMap) |->
               IF languageMap[k].key = langName
                 THEN [languageMap[k] EXCEPT !.value = ValueAdded(@, edge.size)]
                 ELSE languageMap[k]]
       ELSE Append(languageMap,
                   [key |-> langName, color |-> edge.node.color, value |-> edge.size]),
   codeByteTotal |-> acc.codeByteTotal + edge.size]

\* index.ts:476-488  for (const edge of repo.languages.edges)
RECURSIVE AddEdges(_, _)
AddEdges(acc, edges) ==
  IF edges = <<>> THEN acc ELSE AddEdges(AddEdge(acc, Head(edges)), Tail(edges))

\* index.ts:475-489  for (const repo of repos)
RECURSIVE AddRepos(_, _)
AddRepos(acc, repos) ==
  IF repos = <<>> THEN acc
  ELSE AddRepos(AddEdges(acc, Head(repos).languages.edges), Tail(repos))

\* num / den cut to a whole number
Truncated(num, den) == num \div den

\* index.ts:498  Math.round(num / den) for den > 0: the nearest whole number,
\* a half going upward
MathRound(num, den) == (2 * num + den) \div (2 * den)

\* index.ts:497-499
Percentage(value, codeByteTotal) ==
  IF codeByteTotal > 0 THEN MathRound(value * 10000, codeByteTotal) ELSE 0

\* the languages in the order of the Map
LanguagesAsInserted(languages) == languages

\* index.ts:501  .sort((a, b) => b.value - a.value), which is stable: a
\* language goes after those of a greater value and after those of the same
\* value that preceded it
SortLanguages(languages) ==
  LET place(i) ==
        1 + Cardinality({j \in 1..Len(languages) : languages[j].value > languages[i].value})
          + Cardinality({j \in 1..(i - 1) : languages[j].value = languages[i].value}) IN
  [p \in 1..Len(languages) |-> languages[CHOOSE i \in 1..Len(languages) : place(i) = p]]

\* index.ts:467-504
AggregateLanguages(repos) ==
  LET acc == AddRepos([languageMap |-> <<>>, codeByteTotal |-> 0], repos)
      languages ==
        [k \in 1..Len(acc.languageMap) |->
           [languageName |-> acc.languageMap[k].key,
            color |-> acc.languageMap[k].color,
            value |-> acc.languageMap[k].value,
            percentage |-> Percentage(acc.languageMap[k].value, acc.codeByteTotal)]] IN
  [languages |-> SortLanguages(languages), codeByteTotal |-> acc.codeByteTotal]

\* aggregateLanguages is called and returns
CalcLanguages ==
  /\ fn = "aggregateLanguages"
  /\ fnPc = "called"
  /\ fnRet' = AggregateLanguages(fnArgs.repos)
  /\ fnPc' = "returned"
  /\ UNCHANGED <<fn, fnArgs, variant, retrierVars, pbVars, mergeVars, mainVars>>

-----------------------------------------------------------------------------
(* calculateComputedStats(repoInfoList, topLanguages, contributionStats)   *)
(* of part_000. A timestamp is <<year, month, day>>, a month key is        *)
(* <<year, month>>, a topic is the sequence of its characters; a value     *)
(* that may be null is Null or NotNull(v); averages and the growth are     *)
(* kept in hundredths.                                                     *)

Null == [null |-> TRUE]
NotNull(v) == [null |-> FALSE, value |-> v]

\* a test that every timestamp passes
StartsWithAnything(stamp, year) == TRUE

\* part_000:522  r.updatedAt.startsWith(currentYearStr), for the four-digit
\* years of timestamps and month keys
StartsWithYear(stamp, year) == stamp[1] = year

\* part_000:535  repoInfoList.filter((r) => r.updatedAt.startsWith(currentYearStr))
RECURSIVE ReposUpdatedIn(_, _)
ReposUpdatedIn(repoInfoList, year) ==
  IF repoInfoList = <<>> THEN <<>>
  ELSE (IF StartsWithYear(Head(repoInfoList).updatedAt, year)
          THEN <<Head(repoInfoList)>> ELSE <<>>)
       \o ReposUpdatedIn(Tail(repoInfoList), year)

\* part_000:527  repoInfoList.reduce((sum, r) => sum + r.stars, 0)
RECURSIVE TotalStars(_)
TotalStars(repoInfoList) ==
  IF repoInfoList = <<>> THEN 0
  ELSE Head(repoInfoList).stars + TotalStars(Tail(repoInfoList))

\* part_000:537  languagesThisYear.slice(0, 10), and :574  .slice(0, 20)
SliceFromStart(q, n) == SubSeq(q, 1, Min(n, Len(q)))

\* part_000:541-547  monthlyBreakdown.filter((m) => m.month.startsWith(year))
\*                   .reduce((sum, m) => sum + m.contributions, 0)
RECURSIVE ContributionsOfYear(_, _)
ContributionsOfYear(monthlyBreakdown, year) ==
  IF monthlyBreakdown = <<>> THEN 0
  ELSE (IF StartsWithYear(Head(monthlyBreakdown).month, year)
          THEN Head(monthlyBreakdown).contributions ELSE 0)
       + ContributionsOfYear(Tail(monthlyBreakdown), year)

\* a growth that is 0 when there is nothing to compare with
GrowthOrZero(thisYear, lastYear) ==
  IF lastYear > 0
    THEN NotNull(((2 * (thisYear - lastYear) * 10000) + lastYear) \div (2 * lastYear))
    ELSE NotNull(0)

\* part_000:550-552
YearOverYearGrowth(thisYear, lastYear) ==
  IF lastYear > 0
    THEN NotNull(MathRound((thisYear - lastYear) * 10000, lastYear))
    ELSE Null

\* the test of a loop in which a later month of the same count wins
NotLessThan(m, best) ==
  best = Null \/ m.contributions >= best.value.contributions

\* part_000:557  !mostProductiveMonth || m.contributions > mostProductiveMonth.contributions
MoreProductive(m, best) ==
  best = Null \/ m.contributions > best.value.contributions

\* part_000:555-560
RECURSIVE MostProductiveMonth(_, _)
MostProductiveMonth(monthlyBreakdown, best) ==
  IF monthlyBreakdown = <<>> THEN best
  ELSE MostProductiveMonth(Tail(monthlyBreakdown),
                           IF MoreProductive(Head(monthlyBreakdown), best)
                             THEN NotNull(Head(monthlyBreakdown))
                             ELSE best)

\* allTopicsSet.add(topic): a Set keeps its elements in insertion order
SetAdd(set, x) ==
  IF \E k \in 1..Len(set) : set[k] = x THEN set ELSE Append(set, x)

\* part_000:566-569: the loop over the topics of one repository
RECURSIVE AddTopics(_, _)
AddTopics(acc, topics) ==
  IF topics = <<>> THEN acc
  ELSE AddTopics(
         [topicCountMap |->
            MapSet(acc.topicCountMap, Head(topics),
                   MapGet(acc.topicCountMap, Head(topics)) + 1),
          allTopicsSet |-> SetAdd(acc.allTopicsSet, Head(topics))],
         Tail(topics))

\* part_000:565-570: the loop over the repositories
RECURSIVE AddRepoTopics(_, _)
AddRepoTopics(acc, repoInfoList) ==
  IF repoInfoList = <<>> THEN acc
  ELSE AddRepoTopics(AddTopics(acc, Head(repoInfoList).topics), Tail(repoInfoList))

\* the topic counts in the order of the Map
TopicsAsInserted(topics) == topics

\* part_000:573  .sort((a, b) => b.count - a.count), which is stable
SortTopicCounts(topics) ==
  LET place(i) ==
        1 + Cardinality({j \in 1..Len(topics) : topics[j].count > topics[i].count})
          + Cardinality({j \in 1..(i - 1) : topics[j].count = topics[i].count}) IN
  [p \in 1..Len(topics) |-> topics[CHOOSE i \in 1..Len(topics) : place(i) = p]]

\* the letters, in the order of their code units
Letters ==
  <<"a", "b", "c", "d", "e", "f", "g", "h", "i", "j", "k",
    "l", "m", "n", "o", "p", "q", "r", "s", "t", "u">>

\* the UTF-16 code unit of a character of a topic
CodeUnit(c) ==
  IF c = "-" THEN 45
  ELSE IF c = "1" THEN 49
  ELSE 96 + CHOOSE k \in 1..Len(Letters) : Letters[k] = c

\* the default comparison of Array.prototype.sort on strings: by code units,
\* a proper prefix first
StringBefore(a, b) ==
  \/ \E k \in 1..Min(Len(a), Len(b)) :
       /\ CodeUnit(a[k]) < CodeUnit(b[k])
       /\ \A j \in 1..(k - 1) : a[j] = b[j]
  \/ /\ Len(a) < Len(b)
     /\ \A j \in 1..Len(a) : a[j] = b[j]

\* part_000:575  Array.from(allTopicsSet).sort(); the elements are distinct
SortStrings(q) ==
  [p \in 1..Len(q) |->
     q[CHOOSE i \in 1..Len(q) :
         Cardinality({j \in 1..Len(q) : StringBefore(q[j], q[i])}) = p - 1]]

\* part_000:496-609
CalculateComputedStats(repoInfoList, topLanguages, contributionStats, currentYear) ==
  LET count(S) == Cardinality(S)
      at == 1..Len(repoInfoList)
      totalRepos == Len(repoInfoList)
      forkedRepos == count({k \in at : repoInfoList[k].isFork})
      totalStars == TotalStars(repoInfoList)
      topLanguagesThisYear ==
        SliceFromStart(AggregateLanguages(ReposUpdatedIn(repoInfoList, currentYear)).languages, 10)
      contributionsThisYear ==
        ContributionsOfYear(contributionStats.monthlyBreakdown, currentYear)
      contributionsLastYear ==
        ContributionsOfYear(contributionStats.monthlyBreakdown, currentYear - 1)
      topics == AddRepoTopics([topicCountMap |-> <<>>, allTopicsSet |-> <<>>], repoInfoList)
      topicCounts ==
        [k \in 1..Len(topics.topicCountMap) |->
           [name |-> topics.topicCountMap[k].key, count |-> topics.topicCountMap[k].value]]
      allTopics == SortStrings(topics.allTopicsSet) IN
  [totalRepos |-> totalRepos,
   publicRepos |-> count({k \in at : ~repoInfoList[k].isPrivate}),
   privateRepos |-> count({k \in at : repoInfoList[k].isPrivate}),
   archivedRepos |-> count({k \in at : repoInfoList[k].isArchived}),
   forkedRepos |-> forkedRepos,
   originalRepos |-> totalRepos - forkedRepos,
   activeRepos |-> count({k \in at : StartsWithYear(repoInfoList[k].updatedAt, currentYear)}),
   reposWithStars |-> count({k \in at : repoInfoList[k].stars > 0}),
   reposCreatedThisYear |->
     count({k \in at : StartsWithYear(repoInfoList[k].createdAt, currentYear)}),
   averageStarsPerRepo |-> IF totalRepos > 0 THEN Round2(totalStars, totalRepos) ELSE 0,
   languageCount |-> Len(topLanguages),
   primaryLanguage |->
     IF Len(topLanguages) > 0 THEN NotNull(topLanguages[1].languageName) ELSE Null,
   primaryLanguageThisYear |->
     IF Len(topLanguagesThisYear) > 0
       THEN NotNull(topLanguagesThisYear[1].languageName) ELSE Null,
   topLanguagesThisYear |-> topLanguagesThisYear,
   totalTopics |-> Len(allTopics),
   topTopics |-> SliceFromStart(SortTopicCounts(topicCounts), 20),
   allTopics |-> allTopics,
   contributionsThisYear |-> contributionsThisYear,
   contributionsLastYear |-> contributionsLastYear,
   yearOverYearGrowth |-> YearOverYearGrowth(contributionsThisYear, contributionsLastYear),
   mostProductiveMonth |-> MostProductiveMonth(contributionStats.monthlyBreakdown, Null)]

\* calculateComputedStats is called and returns
CalcComputed ==
  /\ fn = "calculateComputedStats"
  /\ fnPc = "called"
  /\ fnRet' = CalculateComputedStats(fnArgs.repoInfoList, fnArgs.topLanguages,
                                     fnArgs.contributionStats, fnArgs.currentYear)
  /\ fnPc' = "returned"
  /\ UNCHANGED <<fn, fnArgs, variant, retrierVars, pbVars, mergeVars, mainVars>>

-----------------------------------------------------------------------------
(* The aggregation pipeline of main in part_000, run on responses that were *)
(* recorded: the year merge, calculateContributionStats,                    *)
(* aggregateLanguages, calculateComputedStats and the output.               *)

\* part_000:902-940: the fields of the output the aggregation fills
PipelineOutput(contributionsCollection, repoInfoList, today, fetchedAt) ==
  LET aggregated == AggregateLanguages(repoInfoList)
      contributionStats == CalculateContributionStats(contributionsCollection, today)
      computedStats ==
        CalculateComputedStats(repoInfoList, aggregated.languages,
                               contributionStats, today[1]) IN
  [totalPullRequestReviews |->
     contributionsCollection.totalPullRequestReviewContributions,
   codeByteTotal |-> aggregated.codeByteTotal,
   topLanguages |-> aggregated.languages,
   totalContributions |->
     contributionsCollection.contributionCalendar.totalContributions,
   contributionStats |-> contributionStats,
   computedStats |-> computedStats,
   contributionsCollection |-> contributionsCollection,
   fetchedAt |-> fetchedAt]

\* One run of the pipeline. The year responses are either parsed afresh from
\* the record or the objects a run before left in memory; the clock reads
\* today, never earlier than in the run before. The merge writes into the
\* first year's object (part_000:246-275). sources keeps, for the
\* properties, where each run took its responses from.
PipelineRun(source, today) ==
  /\ fn = "pipeline"
  /\ fnPc = "called"
  /\ Len(fnRet) < 2
  /\ ~DateBefore(today, fnArgs.clock)
  /\ LET years == IF source = "parsed" THEN fnArgs.recorded ELSE fnArgs.inMemory
         merged == MergeYears(Head(years), Tail(years), FALSE) IN
       /\ fnRet' = Append(fnRet,
                          PipelineOutput(merged, fnArgs.repoInfoList, today,
                                         <<today, Len(fnRet) + 1>>))
       /\ fnArgs' = [fnArgs EXCEPT !.inMemory = <<merged>> \o Tail(years),
                                   !.clock = today,
                                   !.sources = Append(@, source)]
  /\ UNCHANGED <<fn, fnPc, variant, retrierVars, pbVars, mergeVars, mainVars>>

-----------------------------------------------------------------------------
(* The retrier on its own: MaxRepos sibling calls, in any of the revisions *)

RetrierInit ==
  /\ variant \in {"index.ts", "part_000", "octokit.ts"}
  /\ stats = [r \in Repos |-> StatsIdle]
  /\ log = [r \in Repos |-> LogIdle]
  /\ PbIdle
  /\ MergeIdle
  /\ MainIdle
  /\ FnIdle

RetrierNext ==
  \E r \in Repos :
    \/ StatsCall(r) /\ LogRequest(r)
    \/ \E resp \in StatsResponses : StatsAnswer(r, resp) /\ LogAnswer(r, resp)
    \/ StatsFail(r) /\ LogFailure(r)
    \/ StatsRetry(r) /\ LogRequest(r)
    \/ LegacyTimer(r) /\ LogRequest(r)
    \/ \E resp \in StatsResponses : LegacyStrayAnswer(r, resp) /\ LogAnswer(r, resp)
    \/ LegacyStrayFail(r) /\ LogFailure(r)

SpecRetrier == RetrierInit /\ [][RetrierNext]_vars

\* the scheduling of the event loop: a call that was made issues its request,
\* a request in flight is answered or fails, a timer that was set fires
FairRetrier ==
  /\ SpecRetrier
  /\ \A r \in Repos :
       /\ WF_vars(StatsCall(r) /\ LogRequest(r))
       /\ WF_vars((\E resp \in StatsResponses : StatsAnswer(r, resp) /\ LogAnswer(r, resp))
                    \/ (StatsFail(r) /\ LogFailure(r)))
       /\ WF_vars(StatsRetry(r) /\ LogRequest(r))
       /\ WF_vars(LegacyTimer(r) /\ LogRequest(r))
       /\ WF_vars((\E resp \in StatsResponses : LegacyStrayAnswer(r, resp) /\ LogAnswer(r, resp))
                    \/ (LegacyStrayFail(r) /\ LogFailure(r)))

-----------------------------------------------------------------------------
(* processBatched on its own, with the generic processor of the tests *)

SeqsUpTo(S, n) == UNION {[1..k -> S] : k \in 0..n}

BatchInit ==
  /\ variant = "index.ts"
  /\ stats = [r \in Repos |-> StatsIdle]
  /\ log = [r \in Repos |-> LogIdle]
  /\ pbPc = "idle"
  /\ pbKind = "generic"
  /\ items \in SeqsUpTo(ItemValues, MaxItems)
  /\ batchSize \in 1..MaxBatchSize
  /\ pbI = 0
  /\ results = <<>>
  /\ procs = <<>>
  /\ order = <<>>
  /\ failing \in SUBSET (1..Len(items))
  /\ calls = <<>>
  /\ MergeIdle
  /\ MainIdle
  /\ FnIdle

BatchNext ==
  \/ PbCall
  \/ PbStartBatch
  \/ \E j \in 1..MaxBatchSize : PbSettle(j)
  \/ PbBatchSettled
  \/ PbReturn

SpecBatch == BatchInit /\ [][BatchNext]_vars

-----------------------------------------------------------------------------
(* getContributionCollection on its own, in any of the revisions *)

MergeInit ==
  /\ variant \in {"index.ts", "part_000", "octokit.ts"}
  /\ stats = [r \in Repos |-> StatsIdle]
  /\ log = [r \in Repos |-> LogIdle]
  /\ PbIdle
  /\ gccPc = "idle"
  /\ nYears \in Years
  /\ fetched = [y \in Years |-> "pending"]
  /\ yearProm = [y \in Years |-> [state |-> "pending", value |-> "none"]]
  /\ yearResp = [y \in Years |-> NoCollection]
  /\ received = [y \in Years |-> NoCollection]
  /\ gcc = [state |-> "pending", value |-> NoCollection]
  /\ settledOrder = <<>>
  /\ MainIdle
  /\ FnIdle

MergeNext ==
  \/ GccCall
  \/ \E y \in Years :
       \/ YearAnswer(y) /\ LogYear(y)
       \/ YearFail(y) /\ LogYear(y)
  \/ GccSettled

SpecMerge == MergeInit /\ [][MergeNext]_vars

-----------------------------------------------------------------------------
(* A run of main, in the two revisions of index.ts. The endpoint's log is  *)
(* not kept here.                                                          *)

MainInit ==
  /\ variant \in {"index.ts", "part_000"}
  /\ stats = [r \in Repos |-> StatsIdle]
  /\ log = [r \in Repos |-> LogIdle]
  /\ PbIdle
  /\ gccPc = "idle"
  /\ nYears \in Years
  /\ fetched = [y \in Years |-> "pending"]
  /\ yearProm = [y \in Years |-> [state |-> "pending", value |-> "none"]]
  /\ yearResp = [y \in Years |-> NoCollection]
  /\ received = [y \in Years |-> NoCollection]
  /\ gcc = [state |-> "pending", value |-> NoCollection]
  /\ settledOrder = <<>>
  /\ mainPc = "start"
  /\ token \in BOOLEAN
  /\ mainFetch = "idle"
  /\ nRepos \in 0..MaxRepos
  /\ views = [r \in Repos |-> ViewNotCalled]
  /\ contribStatsResults = <<>>
  /\ viewCountResults = <<>>
  /\ totals = NoTotals
  /\ failedRun = FALSE
  /\ written = FALSE
  /\ FnIdle

MainNext ==
  \/ MainStart
  \/ MainAuthOk
  \/ MainAuthFail
  \/ MainFetchOk
  \/ MainFetchFail
  \/ \E y \in Years :
       \/ YearAnswer(y) /\ UNCHANGED settledOrder
       \/ YearFail(y) /\ UNCHANGED settledOrder
  \/ GccSettled
  \/ MainDataSettled
  \/ PbStartBatch
  \/ PbBatchSettled
  \/ PbReturn
  \/ \E r \in Repos :
       \/ \E resp \in StatsResponses : StatsAnswer(r, resp) /\ UNCHANGED log
       \/ StatsFail(r) /\ UNCHANGED log
       \/ StatsRetry(r) /\ UNCHANGED log
       \/ ViewAnswer(r)
       \/ ViewFail(r)
  \/ MainStatsReturned
  \/ MainViewsReturned
  \/ MainFanIn
  \/ MainSummaryOk
  \/ MainSummaryFail

SpecMain == MainInit /\ [][MainNext]_vars

-----------------------------------------------------------------------------
(* calculateContributionStats on its own *)

\* the dates a calendar is made of: two Thursdays, a Tuesday, a Wednesday and
\* a Friday over two months
CalendarDates ==
  {<<2024, 1, 25>>, <<2024, 1, 30>>, <<2024, 1, 31>>, <<2024, 2, 1>>, <<2024, 2, 2>>}

\* the wall-clock dates of the call
Todays == {<<2024, 2, 1>>, <<2024, 2, 2>>, <<2024, 2, 3>>}

\* the contribution counts of a day
DayCounts == {0, 1, 2}

\* the days of a calendar: at most MaxDays days of distinct dates, in any order
DaySeqs ==
  {q \in SeqsUpTo([date : CalendarDates, contributionCount : DayCounts], MaxDays) :
     \A i, j \in 1..Len(q) : i # j => q[i].date # q[j].date}

\* the weeks of a calendar: its days, MaxWeekLen to a week
WeeksOf(days) ==
  [w \in 1..((Len(days) + MaxWeekLen - 1) \div MaxWeekLen) |->
     SubSeq(days, (w - 1) * MaxWeekLen + 1, Min(w * MaxWeekLen, Len(days)))]

\* a collection whose calendar holds these days and their total
CollectionOfDays(days) ==
  [NoCollection EXCEPT
     !.contributionCalendar =
        [totalContributions |->
           LET RECURSIVE sum(_)
               sum(q) == IF q = <<>> THEN 0
                         ELSE Head(q).contributionCount + sum(Tail(q))
           IN sum(days),
         weeks |-> WeeksOf(days)]]

ContribStatsInit ==
  /\ variant = "index.ts"
  /\ stats = [r \in Repos |-> StatsIdle]
  /\ log = [r \in Repos |-> LogIdle]
  /\ PbIdle
  /\ MergeIdle
  /\ MainIdle
  /\ fn = "calculateContributionStats"
  /\ fnPc = "called"
  /\ \E days \in DaySeqs, today \in Todays :
       fnArgs = [contributionsCollection |-> CollectionOfDays(days), today |-> today]
  /\ fnRet = <<>>

ContribStatsNext == CalcStats

SpecContribStats == ContribStatsInit /\ [][ContribStatsNext]_vars

-----------------------------------------------------------------------------
(* aggregateLanguages on its own *)

LanguageNames == {"TypeScript", "Rust"}
LanguageColors == {"#3178c6", "#dea584"}
EdgeSizes == {0, 1, 2}

Edges == {Edge(size, name, color) :
            size \in EdgeSizes, name \in LanguageNames, color \in LanguageColors}

\* the edges of a repository: its languages, each once
EdgeSeqs ==
  {q \in SeqsUpTo(Edges, Cardinality(LanguageNames)) :
     \A i, j \in 1..Len(q) : i # j => q[i].node.name # q[j].node.name}

LanguagesInit ==
  /\ variant = "index.ts"
  /\ stats = [r \in Repos |-> StatsIdle]
  /\ log = [r \in Repos |-> LogIdle]
  /\ PbIdle
  /\ MergeIdle
  /\ MainIdle
  /\ fn = "aggregateLanguages"
  /\ fnPc = "called"
  /\ \E edges \in SeqsUpTo(EdgeSeqs, MaxRepos) :
       fnArgs = [repos |-> [r \in 1..Len(edges) |-> [languages |-> [edges |-> edges[r]]]]]
  /\ fnRet = <<>>

LanguagesNext == CalcLanguages

SpecLanguages == LanguagesInit /\ [][LanguagesNext]_vars

-----------------------------------------------------------------------------
(* calculateComputedStats on its own *)

\* an entry of repoInfoList, as far as calculateComputedStats reads it
RepoInfo(stars, isArchived, isFork, isPrivate, topics, updatedAt, createdAt, edges) ==
  [stars |-> stars, isArchived |-> isArchived, isFork |-> isFork,
   isPrivate |-> isPrivate, topics |-> topics, updatedAt |-> updatedAt,
   createdAt |-> createdAt, languages |-> [edges |-> edges]]

\* when a repository was created and last updated: both this year, created
\* last year and updated this year, both last year
RepoStamps ==
  {[createdAt |-> <<2024, 3, 1>>, updatedAt |-> <<2024, 3, 1>>],
   [createdAt |-> <<2023, 1, 1>>, updatedAt |-> <<2024, 1, 15>>],
   [createdAt |-> <<2023, 1, 1>>, updatedAt |-> <<2023, 1, 1>>]}

\* the stars of a repository with its timestamps
StarsAndStamps ==
  {[stars |-> 0, at |-> a] : a \in RepoStamps}
    \cup {[stars |-> 5, at |-> a] :
            a \in {b \in RepoStamps : b.createdAt[1] = 2023 /\ b.updatedAt[1] = 2024}}

\* repositories that differ in their flags, stars and timestamps
FlagRepos ==
  {RepoInfo(sa.stars, isArchived, isFork, isPrivate, <<>>,
            sa.at.updatedAt, sa.at.createdAt, <<>>) :
     sa \in StarsAndStamps, isArchived \in BOOLEAN, isFork \in BOOLEAN,
     isPrivate \in BOOLEAN}

\* contributionStats with the given monthly breakdown
\* (part_001: createContributionStats)
ContributionStatsOf(monthlyBreakdown) ==
  [longestStreak |-> 0, currentStreak |-> 0, mostActiveDay |-> "Monday",
   averagePerDay |-> 0, averagePerWeek |-> 0, averagePerMonth |-> 0,
   monthlyBreakdown |-> monthlyBreakdown]

\* the months of a breakdown, over three years
BreakdownMonths == <<<<2022, 12>>, <<2023, 11>>, <<2023, 12>>, <<2024, 1>>, <<2024, 2>>>>

\* the contributions of a month; -1 stands for a month without days
MonthCounts == {-1, 0, 1, 2, 3}

\* the entries of a choice of counts, in the order of the months
RECURSIVE BreakdownOf(_, _)
BreakdownOf(counts, k) ==
  IF k > Len(BreakdownMonths) THEN <<>>
  ELSE (IF counts[k] < 0 THEN <<>>
        ELSE <<[month |-> BreakdownMonths[k], contributions |-> counts[k]]>>)
       \o BreakdownOf(counts, k + 1)

\* monthly breakdowns as calculateContributionStats emits them: one entry a
\* month, ascending
Breakdowns ==
  {BreakdownOf(counts, 1) : counts \in [1..Len(BreakdownMonths) -> MonthCounts]}

\* the topics of repositories
Topics == {<<"a", "p", "i">>, <<"a", "p">>, <<"a", "-", "1">>, <<"u">>}

\* the topics of a repository: each once, at most two
TopicSeqs ==
  {q \in SeqsUpTo(Topics, 2) : \A i, j \in 1..Len(q) : i # j => q[i] # q[j]}

\* one topic for each letter: more topics than topTopics holds
ManyTopics == [k \in 1..Len(Letters) |-> <<Letters[k]>>]

\* a repository with the given topics
TopicRepo(topics) ==
  RepoInfo(0, FALSE, FALSE, FALSE, topics, <<2024, 1, 15>>, <<2023, 1, 1>>,
           <<Edge(2, "Rust", "#dea584")>>)

\* repositories that differ in their topics
TopicRepos == {TopicRepo(topics) : topics \in TopicSeqs}

\* lists of repositories with topics, and such lists after a repository that
\* has more topics than topTopics holds
TopicRepoLists ==
  SeqsUpTo(TopicRepos, MaxRepos)
    \cup {<<TopicRepo(ManyTopics)>> \o q : q \in SeqsUpTo(TopicRepos, MaxRepos - 1)}

\* the languages main passes on: those of aggregateLanguages on a few lists
TopLanguageLists ==
  {AggregateLanguages(repos).languages :
     repos \in {<<>>,
                <<[languages |-> [edges |-> <<Edge(2, "Rust", "#dea584")>>]]>>,
                <<[languages |-> [edges |-> <<Edge(1, "Rust", "#dea584"),
                                              Edge(2, "TypeScript", "#3178c6")>>]]>>}}

ComputedInit ==
  /\ variant = "part_000"
  /\ stats = [r \in Repos |-> StatsIdle]
  /\ log = [r \in Repos |-> LogIdle]
  /\ PbIdle
  /\ MergeIdle
  /\ MainIdle
  /\ fn = "calculateComputedStats"
  /\ fnPc = "called"
  /\ \/ \E repoInfoList \in SeqsUpTo(FlagRepos, MaxRepos) :
          fnArgs = [repoInfoList |-> repoInfoList, topLanguages |-> <<>>,
                    contributionStats |-> ContributionStatsOf(<<>>),
                    currentYear |-> 2024]
     \/ \E monthlyBreakdown \in Breakdowns, currentYear \in {2024, 2025} :
          fnArgs = [repoInfoList |-> <<>>, topLanguages |-> <<>>,
                    contributionStats |-> ContributionStatsOf(monthlyBreakdown),
                    currentYear |-> currentYear]
     \/ \E topLanguages \in TopLanguageLists :
          fnArgs = [repoInfoList |-> <<>>, topLanguages |-> topLanguages,
                    contributionStats |-> ContributionStatsOf(<<>>),
                    currentYear |-> 2024]
     \/ \E repoInfoList \in TopicRepoLists :
          fnArgs = [repoInfoList |-> repoInfoList, topLanguages |-> <<>>,
                    contributionStats |-> ContributionStatsOf(<<>>),
                    currentYear |-> 2024]
  /\ fnRet = <<>>

ComputedNext == CalcComputed

SpecComputed == ComputedInit /\ [][ComputedNext]_vars

-----------------------------------------------------------------------------
(* The pipeline run twice on the same recorded responses *)

\* a year's response with the calendar of the given days and as many pull
\* request reviews as contributions
YearResponse(days) ==
  [CollectionOfDays(days) EXCEPT
     !.totalPullRequestReviewContributions =
        CollectionOfDays(days).contributionCalendar.totalContributions]

\* the responses recorded on 1 February 2024 for an account created in 2023
\* or in 2024: the last days of 2023 and the last days up to the recording
RecordedYears ==
  LET last == {YearResponse(<<[date |-> <<2023, 12, 30>>, contributionCount |-> a],
                             [date |-> <<2023, 12, 31>>, contributionCount |-> b]>>) :
                 a \in {0, 1}, b \in {0, 1}}
      this == {YearResponse(<<[date |-> <<2024, 1, 31>>, contributionCount |-> a],
                             [date |-> <<2024, 2, 1>>, contributionCount |-> b]>>) :
                 a \in DayCounts, b \in DayCounts} IN
  {<<t>> : t \in this} \cup {<<l, t>> : l \in last, t \in this}

\* the repositories recorded
RecordedRepos ==
  {<<>>,
   <<RepoInfo(5, FALSE, FALSE, FALSE, <<<<"a", "p", "i">>>>,
              <<2024, 1, 15>>, <<2023, 1, 1>>,
              <<Edge(2, "Rust", "#dea584"), Edge(1, "TypeScript", "#3178c6")>>),
     RepoInfo(0, TRUE, TRUE, TRUE, <<<<"a", "p">>, <<"a", "p", "i">>>>,
              <<2023, 1, 1>>, <<2023, 1, 1>>,
              <<Edge(2, "TypeScript", "#3178c6")>>)>>}

\* the days on which the pipeline runs
RunDays == {<<2024, 2, 1>>, <<2024, 2, 2>>}

PipelineInit ==
  /\ variant = "part_000"
  /\ stats = [r \in Repos |-> StatsIdle]
  /\ log = [r \in Repos |-> LogIdle]
  /\ PbIdle
  /\ MergeIdle
  /\ MainIdle
  /\ fn = "pipeline"
  /\ fnPc = "called"
  /\ \E years \in RecordedYears, repoInfoList \in RecordedRepos :
       fnArgs = [recorded |-> years, inMemory |-> years,
                 repoInfoList |-> repoInfoList, clock |-> <<2024, 2, 1>>,
                 sources |-> <<>>]
  /\ fnRet = <<>>

PipelineNext ==
  \E source \in {"parsed", "inMemory"}, today \in RunDays : PipelineRun(source, today)

SpecPipeline == PipelineInit /\ [][PipelineNext]_vars

-----------------------------------------------------------------------------
(* Properties of the retrier *)

\* every answer r has received so far was a 202 and no request failed
Only202(r) ==
  /\ ~log[r].thrown
  /\ \A k \in 1..Len(log[r].responses) : log[r].responses[k].status = 202

\* a request or a timer of r is still outstanding
StatsBusy(r) ==
  \/ stats[r].phase \in {"inflight", "delay"}
  \/ stats[r].stray \in {"timer", "inflight"}

\* C1: in the revisions of index.ts, when every answer of the contributor-stats
\* endpoint is a 202 the retrier never issues more than MAX_RETRY_COUNT + 1
\* requests, keeps a request or a timer outstanding until it has resolved, and
\* has resolved exactly when the (MAX_RETRY_COUNT + 1)-th 202 arrived: with
\* undefined, after exactly MAX_RETRY_COUNT + 1 requests and with nothing
\* outstanding that could issue another one.
C1_GivesUpAfterCap ==
  \A r \in Repos :
    (~IsLegacy /\ Only202(r) /\ stats[r].phase # "idle") =>
      LET s == stats[r]
          cap == RetryCap(variant) IN
      /\ log[r].requests <= cap + 1
      /\ (s.phase = "done") = (Len(log[r].responses) = cap + 1)
      /\ s.phase # "done" =>
           /\ StatsBusy(r)
           /\ s.result = Pending
           /\ log[r].requests = s.retryCount + 1
      /\ s.phase = "done" =>
           /\ log[r].requests = cap + 1
           /\ s.result = Fulfilled(Undefined)
           /\ ~StatsBusy(r)

\* C1 witness: a call of index.ts that got MAX_RETRY_COUNT + 1 answers, all
\* 202, and gave up
C1_Witness ==
  \E r \in Repos :
    /\ variant = "index.ts"
    /\ Only202(r)
    /\ Len(log[r].responses) = MAX_RETRY_COUNT + 1
    /\ stats[r].phase = "done"

\* C1, termination: under the event loop's scheduling every call resolves
C1_Terminates == <>(\A r \in Repos : ~IsLegacy => stats[r].phase = "done")

\* C2: a call one of whose requests threw or rejected resolves with
\* undefined and is never rejected.
C2_ErrorBecomesNoData ==
  \A r \in Repos :
    log[r].thrown => stats[r].result = Fulfilled(Undefined)

\* C2 in the revisions of index.ts, where it holds
C2_ErrorBecomesNoData_IndexTs == ~IsLegacy => C2_ErrorBecomesNoData

\* C3: the retrier never resolves with a response of status 202, and once a
\* 202 was followed by retries and nothing is outstanding any more, a last
\* answer that is not a 202 is the value the call resolved with.
C3_ResolvesWithLastRetry ==
  \A r \in Repos :
    LET s == stats[r]
        answers == log[r].responses IN
    /\ s.result.state = "fulfilled" => s.result.value.status # 202
    /\ ( /\ log[r].requests > 1
         /\ ~StatsBusy(r)
         /\ ~log[r].thrown
         /\ Len(answers) = log[r].requests
         /\ answers[Len(answers)].status # 202 )
       => s.result = Fulfilled(answers[Len(answers)])

\* C3 in the revisions of index.ts, where it holds
C3_ResolvesWithLastRetry_IndexTs == ~IsLegacy => C3_ResolvesWithLastRetry

-----------------------------------------------------------------------------
(* Properties of processBatched *)

\* what the generic processor's promise for item k settles to
ProcessorOutcome(k) ==
  IF k \in failing
    THEN [state |-> "rejected", value |-> 0]
    ELSE [state |-> "fulfilled", value |-> Processor(items[k])]

\* C4: whatever the items, the batch size and the order in which the
\* processor's promises settle, processBatched returns one result per item and
\* result k is the outcome of the processor on item k.
C4_ResultsInInputOrder ==
  (pbKind = "generic" /\ pbPc = "returned") =>
    /\ Len(results) = Len(items)
    /\ \A k \in 1..Len(items) : results[k] = ProcessorOutcome(k)

\* C4 witness: a call over two batches or more has returned after the
\* promises of its last batch settled in another order than the items'
C4_Witness ==
  /\ pbKind = "generic"
  /\ pbPc = "returned"
  /\ Len(items) > batchSize
  /\ Len(order) >= 2
  /\ order[1] # 1
  /\ items[Len(items)] # items[Len(items) - 1]

\* C5: whichever items fail, processBatched never rejects and never stops
\* before it has returned; when it has returned the processor was called on
\* every item, in order, the rejected results are exactly those of the failing
\* items and every other result is fulfilled with its value.
C5_FailuresDoNotAbort ==
  pbKind = "generic" =>
    /\ pbPc # "rejected"
    /\ pbPc # "returned" => ENABLED BatchNext
    /\ pbPc = "returned" =>
         /\ calls = [k \in 1..Len(items) |-> k]
         /\ Len(results) = Len(items)
         /\ {k \in 1..Len(results) : results[k].state = "rejected"} = failing
         /\ \A k \in (1..Len(results)) \ failing :
              /\ results[k].state = "fulfilled"
              /\ results[k].value = Processor(items[k])

\* C5 witness: the first item failed, in a batch of two, and a later batch
\* held an item that succeeded
C5_Witness ==
  /\ pbKind = "generic"
  /\ pbPc = "returned"
  /\ batchSize = 2
  /\ Len(items) >= 3
  /\ 1 \in failing
  /\ 2 \notin failing
  /\ 3 \notin failing

\* the processor calls in flight: the promises of the batch still pending
InFlight == {j \in 1..Len(procs) : procs[j].state = "pending"}

\* C28: during processBatched at most batchSize processor calls are in
\* flight, and an item of a later batch is started only after every item of
\* the batches before it has settled: the items started are those of the
\* batches up to the current one, and the result of every item before the
\* current batch is settled.
C28_AtMostBatchSizeInFlight ==
  pbKind = "generic" =>
    /\ Cardinality(InFlight) <= batchSize
    /\ Len(calls) <= pbI + batchSize
    /\ \A k \in 1..Len(calls) :
         calls[k] <= pbI => /\ k <= Len(results)
                            /\ results[k].state # "pending"
    /\ pbPc = "loop" => InFlight = {}

\* the second batch is in flight, as many calls as the batch size allows
C28_Witness ==
  /\ pbKind = "generic"
  /\ pbPc = "await"
  /\ batchSize >= 2
  /\ pbI = batchSize
  /\ Cardinality(InFlight) = batchSize
  /\ Len(calls) = pbI + batchSize

-----------------------------------------------------------------------------
(* Properties of getContributionCollection *)

RECURSIVE SeqSum(_)
SeqSum(q) == IF q = <<>> THEN 0 ELSE Head(q) + SeqSum(Tail(q))

RECURSIVE Concat(_)
Concat(qs) == IF qs = <<>> THEN <<>> ELSE Head(qs) \o Concat(Tail(qs))

\* the years whose query succeeded, ascending
OkYears == Ascending({y \in 1..nYears : fetched[y] = "ok"})

\* every query has been answered or has failed
YearsSettled == gccPc # "idle" /\ \A y \in 1..nYears : fetched[y] # "pending"

AllYearsFailed == gccPc # "idle" /\ \A y \in 1..nYears : fetched[y] = "failed"

SomeYearsFailed ==
  /\ YearsSettled
  /\ \E y \in 1..nYears : fetched[y] = "failed"
  /\ \E y \in 1..nYears : fetched[y] = "ok"

\* C7: when the query of some but not all years fails, the call does not
\* reject and can still return; what it returns holds the weeks of exactly the
\* years that succeeded, in order, and the sum of their calendar totals, and
\* in the revisions of index.ts the sum of each of their six counters.
C7_PartialFailureStillMerges ==
  LET ok == [k \in 1..Len(OkYears) |-> received[OkYears[k]]] IN
  /\ (gcc.state = "rejected" /\ YearsSettled) => AllYearsFailed
  /\ (SomeYearsFailed /\ gccPc = "await") => ENABLED GccSettled
  /\ (SomeYearsFailed /\ gccPc = "done") =>
       /\ gcc.state = "fulfilled"
       /\ gcc.value.contributionCalendar.weeks =
            Concat([k \in 1..Len(ok) |-> ok[k].contributionCalendar.weeks])
       /\ gcc.value.contributionCalendar.totalContributions =
            SeqSum([k \in 1..Len(ok) |-> ok[k].contributionCalendar.totalContributions])
       /\ ~IsLegacy =>
            /\ gcc.value.totalCommitContributions =
                 SeqSum([k \in 1..Len(ok) |-> ok[k].totalCommitContributions])
            /\ gcc.value.restrictedContributionsCount =
                 SeqSum([k \in 1..Len(ok) |-> ok[k].restrictedContributionsCount])
            /\ gcc.value.totalIssueContributions =
                 SeqSum([k \in 1..Len(ok) |-> ok[k].totalIssueContributions])
            /\ gcc.value.totalRepositoryContributions =
                 SeqSum([k \in 1..Len(ok) |-> ok[k].totalRepositoryContributions])
            /\ gcc.value.totalPullRequestContributions =
                 SeqSum([k \in 1..Len(ok) |-> ok[k].totalPullRequestContributions])
            /\ gcc.value.totalPullRequestReviewContributions =
                 SeqSum([k \in 1..Len(ok) |-> ok[k].totalPullRequestReviewContributions])

\* C7 in the revisions of index.ts, where it holds
C7_PartialFailureStillMerges_IndexTs == ~IsLegacy => C7_PartialFailureStillMerges

\* a call of index.ts in which the first year failed and a later one did not
C7_IndexTs_Witness ==
  /\ variant = "index.ts"
  /\ gccPc = "done"
  /\ nYears >= 2
  /\ fetched[1] = "failed"
  /\ fetched[2] = "ok"

\* C8: when the query of every year has failed the call can only reject: it
\* is never fulfilled, it is able to settle, and once it has settled it is
\* rejected; a fulfilled call had a year that succeeded.
C8_AllYearsFailedRejects ==
  /\ AllYearsFailed => gcc.state # "fulfilled"
  /\ (AllYearsFailed /\ gccPc = "await") => ENABLED GccSettled
  /\ (AllYearsFailed /\ gccPc = "done") => gcc.state = "rejected"
  /\ gcc.state = "fulfilled" => \E y \in 1..nYears : fetched[y] = "ok"

\* C8 witness: a call of index.ts over several years, all of which failed,
\* has settled
C8_Witness ==
  /\ variant = "index.ts"
  /\ nYears >= 2
  /\ AllYearsFailed
  /\ gccPc = "done"

\* the days of a collection, week after week
DaysOf(c) == Concat(c.contributionCalendar.weeks)

\* the calendar's total is the sum of its days' counts
TotalMatchesDays(c) ==
  c.contributionCalendar.totalContributions =
    SeqSum([k \in 1..Len(DaysOf(c)) |-> DaysOf(c)[k].contributionCount])

\* the collections of the years whose query succeeded, as they were received
OkCollections == [k \in 1..Len(OkYears) |-> received[OkYears[k]]]

\* C11: when the total of every year that was fetched is the sum of that
\* year's day counts, the total of the collection the call returns is the sum
\* of the counts of all the days of its weeks, however many years there are
\* and whichever of them failed.
C11_MergedTotalMatchesDays ==
  (gcc.state = "fulfilled"
     /\ \A k \in 1..Len(OkCollections) : TotalMatchesDays(OkCollections[k]))
    => TotalMatchesDays(gcc.value)

\* C11 witness: a call of index.ts merged the first and the last of three or
\* of two years, both with contributions, around failures or not
C11_Witness ==
  /\ variant = "index.ts"
  /\ gcc.state = "fulfilled"
  /\ Len(OkYears) >= 2
  /\ \A k \in 1..Len(OkCollections) :
       OkCollections[k].contributionCalendar.totalContributions > 0

\* C12: each of the six scalar counters of the collection the call returns is
\* the sum of that counter over the years whose query succeeded.
C12_CountersAreSums ==
  gcc.state = "fulfilled" =>
    LET ok == OkCollections IN
    /\ gcc.value.totalCommitContributions =
         SeqSum([k \in 1..Len(ok) |-> ok[k].totalCommitContributions])
    /\ gcc.value.totalIssueContributions =
         SeqSum([k \in 1..Len(ok) |-> ok[k].totalIssueContributions])
    /\ gcc.value.totalPullRequestContributions =
         SeqSum([k \in 1..Len(ok) |-> ok[k].totalPullRequestContributions])
    /\ gcc.value.totalPullRequestReviewContributions =
         SeqSum([k \in 1..Len(ok) |-> ok[k].totalPullRequestReviewContributions])
    /\ gcc.value.totalRepositoryContributions =
         SeqSum([k \in 1..Len(ok) |-> ok[k].totalRepositoryContributions])
    /\ gcc.value.restrictedContributionsCount =
         SeqSum([k \in 1..Len(ok) |-> ok[k].restrictedContributionsCount])

\* C12 in the revisions of index.ts, where it holds
C12_CountersAreSums_IndexTs == ~IsLegacy => C12_CountersAreSums

\* a call of index.ts that merged two years with commits
C12_IndexTs_Witness ==
  /\ variant = "part_000"
  /\ gcc.state = "fulfilled"
  /\ Len(OkYears) >= 2
  /\ \A k \in 1..Len(OkCollections) : OkCollections[k].totalCommitContributions > 0

\* the weeks received for the years 1 to n whose query succeeded, year by year
RECURSIVE WeeksUpTo(_)
WeeksUpTo(n) ==
  IF n = 0 THEN <<>>
  ELSE WeeksUpTo(n - 1) \o (IF fetched[n] = "ok"
                              THEN received[n].contributionCalendar.weeks
                              ELSE <<>>)

\* C13: the weeks of the collection the call returns are the weeks of the
\* years whose query succeeded, one year after the other in ascending year
\* order, in whatever order the queries were answered or failed.
C13_WeeksInYearOrder ==
  gcc.state = "fulfilled" =>
    gcc.value.contributionCalendar.weeks = WeeksUpTo(nYears)

\* C13 witness: the last year was answered first, the first year last, both
\* with weeks, and the call returned
C13_Witness ==
  /\ variant = "index.ts"
  /\ gcc.state = "fulfilled"
  /\ nYears >= 2
  /\ Len(settledOrder) = nYears
  /\ settledOrder[1] = nYears
  /\ settledOrder[nYears] = 1
  /\ fetched[1] = "ok"
  /\ fetched[nYears] = "ok"
  /\ received[1].contributionCalendar.weeks # <<>>
  /\ received[nYears].contributionCalendar.weeks # <<>>

\* C29: after getContributionCollection has returned, every fetched year's
\* collection (counters, totalContributions, weeks) is as it was received.
C29_FetchedYearsUnchanged ==
  (gccPc = "done" /\ gcc.state = "fulfilled") =>
    \A y \in 1..nYears : fetched[y] = "ok" => yearResp[y] = received[y]

\* C29 for the years after the first one that was fetched, which are only
\* read
C29_FetchedYearsUnchanged_AfterFirst ==
  (gccPc = "done" /\ gcc.state = "fulfilled") =>
    \A y \in 1..nYears :
      (fetched[y] = "ok" /\ \E z \in 1..(y - 1) : fetched[z] = "ok")
        => yearResp[y] = received[y]

\* two years were fetched, both with contributions, and merged
C29_AfterFirst_Witness ==
  /\ gccPc = "done"
  /\ gcc.state = "fulfilled"
  /\ nYears >= 2
  /\ fetched[1] = "ok"
  /\ fetched[2] = "ok"
  /\ received[1].contributionCalendar.totalContributions > 0
  /\ received[2].contributionCalendar.totalContributions > 0
  /\ yearResp[2] = received[2]

-----------------------------------------------------------------------------
(* Properties of main *)

\* the two fetches of repository r have settled
StatsSettled(r) == stats[r].phase = "done" /\ stats[r].result.state # "pending"
ViewSettled(r) == views[r].state \in {"fulfilled", "rejected"}

\* C6: processBatched has returned only when the fetch of every one of its
\* items has settled, and main has started to accumulate (a total is not 0, or
\* the file is written) only when every repository's contributor-stats fetch
\* and view-count fetch have settled and every result it reads is settled.
C6_FanOutIsBarrier ==
  /\ (pbKind = "stats" /\ pbPc = "returned") =>
       /\ Len(results) = nRepos
       /\ \A r \in 1..nRepos : StatsSettled(r)
  /\ (pbKind = "views" /\ pbPc = "returned") =>
       /\ Len(results) = nRepos
       /\ \A r \in 1..nRepos : ViewSettled(r)
  /\ (written \/ totals # NoTotals \/ mainPc = "summary") =>
       /\ \A r \in 1..nRepos : StatsSettled(r) /\ ViewSettled(r)
       /\ Len(contribStatsResults) = nRepos
       /\ Len(viewCountResults) = nRepos
       /\ \A k \in 1..nRepos :
            /\ contribStatsResults[k] = stats[k].result
            /\ viewCountResults[k] = views[k]

\* C6 witness: the newer main has accumulated over MaxRepos repositories, with
\* lines and views counted
C6_Witness ==
  /\ variant = "part_000"
  /\ written
  /\ nRepos >= 2
  /\ totals.linesAdded > 0
  /\ totals.repoViews > 0

\* C9: in a run whose token is missing, or in which the contribution query of
\* every year has failed, the file is never written, the run can only go on
\* to report the failure, and when it is over core.setFailed was called.
C9_FatalFailureWritesNothing ==
  (~token \/ AllYearsFailed) =>
    /\ ~written
    /\ mainPc \notin {"stats", "views", "fanout", "summary"}
    /\ mainPc = "done" => failedRun
    /\ mainPc # "done" => ENABLED MainNext
    /\ (mainPc = "data" /\ gccPc = "done") => ENABLED MainDataSettled

\* C9 witness: a run with a token in which every year failed is over
C9_Witness ==
  /\ variant = "index.ts"
  /\ token
  /\ nYears >= 2
  /\ AllYearsFailed
  /\ mainFetch = "fulfilled"
  /\ mainPc = "done"

\* C9 witness: a run without a token is over
C9_Witness_NoToken == ~token /\ mainPc = "done"

\* the weeks of the user in a contributor-stats payload
MyWeeks(data) ==
  Concat([k \in 1..Len(data) |-> IF data[k].login = Me THEN data[k].weeks ELSE <<>>])

\* a repository's contributor-stats fetch failed: a request threw or the
\* retries ran out, and the call returned undefined
StatsFailed(r) == stats[r].phase = "done" /\ stats[r].result = Fulfilled(Undefined)

\* the weeks repository r contributes: none when its fetch failed
RepoWeeks(r) ==
  IF stats[r].result.state = "fulfilled" /\ stats[r].result.value.status = 200
    THEN MyWeeks(stats[r].result.value.data)
    ELSE <<>>

\* the views repository r contributes: 0 when its fetch failed
RepoViews(r) ==
  IF views[r].state = "fulfilled" THEN views[r].value.data.count ELSE 0

\* C10: once the five main fetches have succeeded, whichever per-repository
\* fetches fail, the run is never reported as failed before the file is
\* written, never stops before it is over, and is over only with the file
\* written; in the file each total is the sum, over the repositories, of the
\* user's values in the repositories whose fetch succeeded and of 0 for the
\* others.
C10_RepoFailuresAddZero ==
  LET weeks == Concat([r \in 1..nRepos |-> RepoWeeks(r)]) IN
  /\ pbPc # "rejected"
  /\ mainPc \in {"stats", "views", "fanout"} => ~failedRun /\ ENABLED MainNext
  /\ (mainPc = "done" /\ MainData(mainFetch, gcc) = "fulfilled") => written
  /\ written =>
       /\ totals.linesAdded = SeqSum([k \in 1..Len(weeks) |-> weeks[k].a])
       /\ totals.linesDeleted = SeqSum([k \in 1..Len(weeks) |-> weeks[k].d])
       /\ totals.commitCount = SeqSum([k \in 1..Len(weeks) |-> weeks[k].c])
       /\ totals.repoViews = SeqSum([r \in 1..nRepos |-> RepoViews(r)])

\* C10 witness: a run of index.ts wrote the file although one repository's
\* contributor stats and the other's view count had failed; the stats of the
\* second were counted
C10_Witness ==
  /\ variant = "index.ts"
  /\ written
  /\ nRepos >= 2
  /\ StatsFailed(1)
  /\ views[2].state = "rejected"
  /\ views[1].state = "fulfilled"
  /\ Len(RepoWeeks(2)) > 1

-----------------------------------------------------------------------------
(* Properties of calculateContributionStats *)

\* calculateContributionStats has returned
StatsReturned == fn = "calculateContributionStats" /\ fnPc = "returned"

\* the days it was given, in the order of the input
InputDays == Concat(fnArgs.contributionsCollection.contributionCalendar.weeks)

\* the days it was given in chronological order: the p-th is the one with
\* p - 1 days before it (the dates of a calendar are distinct)
Chronological ==
  [p \in 1..Len(InputDays) |->
     InputDays[CHOOSE i \in 1..Len(InputDays) :
                 Cardinality({j \in 1..Len(InputDays) :
                                DateBefore(InputDays[j].date, InputDays[i].date)}) = p - 1]]

\* the days from i to j of q all have a contribution
IsRun(q, i, j) == \A k \in i..j : q[k].contributionCount > 0

\* the length of the longest run of q, 0 when there is none
LongestRun(q) ==
  LET lengths == {j - i + 1 : i \in 1..Len(q), j \in 1..Len(q)} \cup {0}
      runs == {n \in lengths :
                 n = 0 \/ \E i \in 1..Len(q) : i + n - 1 <= Len(q) /\ IsRun(q, i, i + n - 1)} IN
  CHOOSE n \in runs : \A m \in runs : m <= n

\* C14: longestStreak is the length of the longest run of consecutive days
\* with a contribution in the chronological sequence of the days, and 0 when
\* no day has one.
C14_LongestStreakIsLongestRun ==
  StatsReturned =>
    /\ fnRet.longestStreak = LongestRun(Chronological)
    /\ (\A k \in 1..Len(InputDays) : InputDays[k].contributionCount = 0)
         => fnRet.longestStreak = 0

\* C14 witness: the days came out of order, the most recent one without a
\* contribution, and the longest run, of two days or more, is the earliest
C14_Witness ==
  /\ StatsReturned
  /\ Len(InputDays) >= 3
  /\ InputDays # Chronological
  /\ Chronological[Len(InputDays)].contributionCount = 0
  /\ IsRun(Chronological, 1, 2)
  /\ fnRet.longestStreak >= 2

\* the number of days with a contribution that end at position last of q
RunEndingAt(q, last) ==
  CHOOSE n \in 0..last :
    /\ IsRun(q, last - n + 1, last)
    /\ n < last => q[last - n].contributionCount = 0

\* the count backward from the most recent day, which is skipped when it is
\* today's and has no contribution
CountedBackward(q, today) ==
  LET n == Len(q) IN
  IF n > 0 /\ q[n].contributionCount = 0 /\ q[n].date = today
    THEN RunEndingAt(q, n - 1)
    ELSE RunEndingAt(q, n)

\* C15: currentStreak is the number of days with a contribution counted
\* backward from the most recent day up to the first day without one, where
\* a most recent day without a contribution is skipped when its date is
\* today; a day without a contribution that is not the most recent one always
\* ends the count.
C15_CurrentStreakCountsBackward ==
  StatsReturned =>
    fnRet.currentStreak = CountedBackward(Chronological, fnArgs.today)

\* no day of the calendar is later than the wall-clock date of the call
NoDayAfterToday ==
  \A k \in 1..Len(InputDays) : ~DateBefore(fnArgs.today, InputDays[k].date)

\* C15 for the calendars that do not reach beyond today, where it holds
C15_CurrentStreakCountsBackward_UpToToday ==
  NoDayAfterToday => C15_CurrentStreakCountsBackward

\* a calendar that ends today, without a contribution yet, after two days
\* with contributions
C15_UpToToday_Witness ==
  /\ StatsReturned
  /\ NoDayAfterToday
  /\ Len(InputDays) >= 3
  /\ Chronological[Len(InputDays)].date = fnArgs.today
  /\ Chronological[Len(InputDays)].contributionCount = 0
  /\ fnRet.currentStreak = 2

\* the year-months of the days that were given
InputMonths == {MonthOf(InputDays[k].date) : k \in 1..Len(InputDays)}

\* the sum of the contributions of the days of month m
MonthTotal(m) ==
  SeqSum([k \in 1..Len(InputDays) |->
            IF MonthOf(InputDays[k].date) = m THEN InputDays[k].contributionCount ELSE 0])

\* C16: monthlyBreakdown has exactly one entry for each year-month of the
\* input days, the contributions of an entry are the sum of the counts of the
\* days of its month, and the entries are in strictly ascending order of
\* month, in whatever order the days were given.
C16_MonthlyBreakdownSorted ==
  StatsReturned =>
    LET mb == fnRet.monthlyBreakdown IN
    /\ {mb[k].month : k \in 1..Len(mb)} = InputMonths
    /\ Len(mb) = Cardinality(InputMonths)
    /\ \A k \in 1..Len(mb) : mb[k].contributions = MonthTotal(mb[k].month)
    /\ \A k \in 1..(Len(mb) - 1) : DateBefore(mb[k].month, mb[k + 1].month)

\* C16 witness: the first day given is of the later month, and both months
\* have several days and contributions
C16_Witness ==
  /\ StatsReturned
  /\ Len(InputDays) >= 4
  /\ MonthOf(InputDays[1].date) = <<2024, 2>>
  /\ Len(fnRet.monthlyBreakdown) = 2
  /\ \A k \in 1..2 : fnRet.monthlyBreakdown[k].contributions >= 3

\* the sum of the contributions of the days that fall on weekday w
WeekdayTotal(w) ==
  SeqSum([k \in 1..Len(InputDays) |->
            IF WeekdayOf(InputDays[k].date) = w THEN InputDays[k].contributionCount ELSE 0])

\* the weekdays of the days that were given
InputWeekdays == {WeekdayOf(InputDays[k].date) : k \in 1..Len(InputDays)}

\* the position of the first day that falls on weekday w
FirstSeen(w) ==
  CHOOSE i \in 1..Len(InputDays) :
    /\ WeekdayOf(InputDays[i].date) = w
    /\ \A j \in 1..(i - 1) : WeekdayOf(InputDays[j].date) # w

\* C17: when there is a day, mostActiveDay is a weekday of the input whose
\* summed contributions are the largest, and among the weekdays with that sum,
\* also when all sums are equal, the one that was met first.
C17_MostActiveDayFirstOfMax ==
  (StatsReturned /\ InputDays # <<>>) =>
    LET w == fnRet.mostActiveDay IN
    /\ w \in InputWeekdays
    /\ \A v \in InputWeekdays :
         /\ WeekdayTotal(v) <= WeekdayTotal(w)
         /\ WeekdayTotal(v) = WeekdayTotal(w) => FirstSeen(w) <= FirstSeen(v)

\* some day has a contribution
SomeContribution == \E k \in 1..Len(InputDays) : InputDays[k].contributionCount > 0

\* C17 for the calendars with a contribution, where it holds
C17_MostActiveDayFirstOfMax_WithContributions ==
  SomeContribution => C17_MostActiveDayFirstOfMax

\* two weekdays tie for the largest sum, one of them over two days, and the
\* one met first is not the earliest in the week
C17_WithContributions_Witness ==
  /\ StatsReturned
  /\ fnRet.mostActiveDay = "Thursday"
  /\ WeekdayTotal("Thursday") = 2
  /\ WeekdayTotal("Tuesday") = 2
  /\ Len(InputDays) >= 3
  /\ \A k \in 1..Len(InputDays) :
       WeekdayOf(InputDays[k].date) = "Thursday" => InputDays[k].contributionCount = 1

\* h hundredths is num / den rounded to 2 decimals, halves going up
IsRounded(h, num, den) ==
  /\ 2 * den * h - den <= 200 * num
  /\ 200 * num < 2 * den * h + den

\* C18: for every calendar, the empty one included, the averages that
\* calculateContributionStats returns are numbers; averagePerDay is totalContributions divided by the number of
\* days, or by 1 when there is none, averagePerWeek is 7 times and
\* averagePerMonth 30 times that quotient, each rounded to 2 decimals; for a
\* calendar without days the three averages and the two streaks are 0 and
\* monthlyBreakdown is empty.
C18_AveragesNeverDivideByZero ==
  StatsReturned =>
    LET total == fnArgs.contributionsCollection.contributionCalendar.totalContributions
        n == Max(Len(InputDays), 1) IN
    /\ fnRet.averagePerDay \in Nat
    /\ fnRet.averagePerWeek \in Nat
    /\ fnRet.averagePerMonth \in Nat
    /\ IsRounded(fnRet.averagePerDay, total, n)
    /\ IsRounded(fnRet.averagePerWeek, 7 * total, n)
    /\ IsRounded(fnRet.averagePerMonth, 30 * total, n)
    /\ InputDays = <<>> =>
         /\ fnRet.averagePerDay = 0
         /\ fnRet.averagePerWeek = 0
         /\ fnRet.averagePerMonth = 0
         /\ fnRet.longestStreak = 0
         /\ fnRet.currentStreak = 0
         /\ fnRet.monthlyBreakdown = <<>>

\* C18 witness: two contributions over three days, 0.67 a day and 4.67 a week
C18_Witness ==
  /\ StatsReturned
  /\ Len(InputDays) = 3
  /\ fnArgs.contributionsCollection.contributionCalendar.totalContributions = 2
  /\ fnRet.averagePerDay = 67
  /\ fnRet.averagePerWeek = 467

\* C18 witness: the calendar without days
C18_Witness_Empty == StatsReturned /\ InputDays = <<>> /\ fnRet.averagePerMonth = 0

\* C30: for every calendar, whatever the dates of its days relative to
\* today, 0 <= currentStreak <= longestStreak <= number of days.
C30_StreaksOrdered ==
  StatsReturned =>
    /\ 0 <= fnRet.currentStreak
    /\ fnRet.currentStreak <= fnRet.longestStreak
    /\ fnRet.longestStreak <= Len(InputDays)

\* C30 for the calendars that do not reach beyond today, where it holds
C30_StreaksOrdered_UpToToday == NoDayAfterToday => C30_StreaksOrdered

\* a calendar that ends today, without a contribution yet, whose current
\* streak is also its longest
C30_UpToToday_Witness ==
  /\ StatsReturned
  /\ NoDayAfterToday
  /\ Len(InputDays) >= 3
  /\ Chronological[Len(InputDays)].date = fnArgs.today
  /\ Chronological[Len(InputDays)].contributionCount = 0
  /\ fnRet.currentStreak >= 1
  /\ fnRet.currentStreak = fnRet.longestStreak

-----------------------------------------------------------------------------
(* Properties of aggregateLanguages *)

LanguagesReturned == fn = "aggregateLanguages" /\ fnPc = "returned"

\* every edge of the input, as <<repository, position>>
InputEdges ==
  {rk \in (1..MaxRepos) \X (1..Cardinality(LanguageNames)) :
     /\ rk[1] <= Len(fnArgs.repos)
     /\ rk[2] <= Len(fnArgs.repos[rk[1]].languages.edges)}

EdgeAt(rk) == fnArgs.repos[rk[1]].languages.edges[rk[2]]

InputLanguageNames == {EdgeAt(rk).node.name : rk \in InputEdges}

RECURSIVE SizeSum(_)
SizeSum(S) ==
  IF S = {} THEN 0
  ELSE LET rk == CHOOSE x \in S : TRUE IN EdgeAt(rk).size + SizeSum(S \ {rk})

SizeOfLanguage(name) == SizeSum({rk \in InputEdges : EdgeAt(rk).node.name = name})

RECURSIVE FieldSum(_, _)
FieldSum(languages, field) ==
  IF languages = <<>> THEN 0
  ELSE Head(languages)[field] + FieldSum(Tail(languages), field)

\* C19: aggregateLanguages returns one entry for each distinct language name
\* of the input, its value the sum of the sizes of the edges of that name;
\* the values add up to codeByteTotal, which is the sum of all sizes; for an
\* input without edges it returns no languages and a codeByteTotal of 0.
C19_OneEntryPerLanguage ==
  LanguagesReturned =>
    LET languages == fnRet.languages IN
    /\ {languages[k].languageName : k \in 1..Len(languages)} = InputLanguageNames
    /\ Len(languages) = Cardinality(InputLanguageNames)
    /\ \A k \in 1..Len(languages) :
         languages[k].value = SizeOfLanguage(languages[k].languageName)
    /\ FieldSum(languages, "value") = fnRet.codeByteTotal
    /\ fnRet.codeByteTotal = SizeSum(InputEdges)
    /\ (InputEdges = {} => languages = <<>> /\ fnRet.codeByteTotal = 0)

\* a language met in two repositories has been aggregated
C19_Witness ==
  /\ LanguagesReturned
  /\ \E a, b \in InputEdges :
       /\ a[1] # b[1]
       /\ EdgeAt(a).node.name = EdgeAt(b).node.name
       /\ EdgeAt(a).size > 0
       /\ EdgeAt(b).size > 0
  /\ Len(fnRet.languages) = 2

\* an empty list of repositories has been aggregated
C19_Witness_Empty ==
  /\ LanguagesReturned
  /\ fnArgs.repos = <<>>
  /\ fnRet = [languages |-> <<>>, codeByteTotal |-> 0]

\* p is num / den rounded to the nearest whole number, halves upward
IsNearest(p, num, den) == 2 * den * p - den <= 2 * num /\ 2 * num < 2 * den * p + den

Abs(x) == IF x < 0 THEN -x ELSE x

\* C20: the percentage of a language is value / codeByteTotal * 10000
\* rounded to the nearest whole number and divided by 100 when codeByteTotal
\* is positive, and 0 otherwise; when codeByteTotal is positive the
\* percentages add up to 100 within 0.005 for each language.
C20_PercentageRounded ==
  LanguagesReturned =>
    LET languages == fnRet.languages
        codeByteTotal == fnRet.codeByteTotal IN
    /\ \A k \in 1..Len(languages) :
         /\ languages[k].percentage \in Nat
         /\ IF codeByteTotal > 0
              THEN IsNearest(languages[k].percentage,
                             languages[k].value * 10000, codeByteTotal)
              ELSE languages[k].percentage = 0
    /\ codeByteTotal > 0 =>
         2 * Abs(FieldSum(languages, "percentage") - 10000) <= Len(languages)

\* percentages that had to be rounded: one third and two thirds
C20_Witness ==
  /\ LanguagesReturned
  /\ fnRet.codeByteTotal = 3
  /\ Len(fnRet.languages) = 2
  /\ fnRet.languages[1].percentage = 6667
  /\ fnRet.languages[2].percentage = 3333

\* languages whose sizes are all 0
C20_Witness_Zero ==
  /\ LanguagesReturned
  /\ fnRet.codeByteTotal = 0
  /\ Len(fnRet.languages) = 2
  /\ \A k \in 1..2 : fnRet.languages[k].percentage = 0

\* <<repository, position>> a comes before b in input order
EdgeBefore(a, b) == a[1] < b[1] \/ (a[1] = b[1] /\ a[2] < b[2])

\* the first edge of the input with the language name
FirstEdgeOf(name) ==
  CHOOSE a \in InputEdges :
    /\ EdgeAt(a).node.name = name
    /\ \A b \in InputEdges : EdgeAt(b).node.name = name /\ b # a => EdgeBefore(a, b)

\* C21: the color of a language returned by aggregateLanguages is the color
\* of the first edge of that language in input order (repositories in order,
\* edges in order); later edges of the language do not change it.
C21_ColorOfFirstEdge ==
  LanguagesReturned =>
    \A k \in 1..Len(fnRet.languages) :
      fnRet.languages[k].color =
        EdgeAt(FirstEdgeOf(fnRet.languages[k].languageName)).node.color

\* a language met again, in a later repository, with another color
C21_Witness ==
  /\ LanguagesReturned
  /\ \E a, b \in InputEdges :
       /\ a[1] < b[1]
       /\ EdgeAt(a).node.name = EdgeAt(b).node.name
       /\ EdgeAt(a).node.color # EdgeAt(b).node.color
       /\ a = FirstEdgeOf(EdgeAt(a).node.name)
       /\ \E k \in 1..Len(fnRet.languages) :
            /\ fnRet.languages[k].languageName = EdgeAt(a).node.name
            /\ fnRet.languages[k].color = EdgeAt(a).node.color

\* C22: the languages returned by aggregateLanguages are in descending order
\* of value, and languages of equal value are in the order in which they
\* were first seen in the input.
C22_SortedByValueDescending ==
  LanguagesReturned =>
    \A i, j \in 1..Len(fnRet.languages) :
      i < j =>
        \/ fnRet.languages[i].value > fnRet.languages[j].value
        \/ /\ fnRet.languages[i].value = fnRet.languages[j].value
           /\ EdgeBefore(FirstEdgeOf(fnRet.languages[i].languageName),
                         FirstEdgeOf(fnRet.languages[j].languageName))

\* the language seen second has the greater value and is returned first
C22_Witness ==
  /\ LanguagesReturned
  /\ Len(fnRet.languages) = 2
  /\ fnRet.languages[1].value > fnRet.languages[2].value
  /\ EdgeBefore(FirstEdgeOf(fnRet.languages[2].languageName),
                FirstEdgeOf(fnRet.languages[1].languageName))

\* two languages of equal value, aggregated over two repositories
C22_Witness_Tie ==
  /\ LanguagesReturned
  /\ Len(fnArgs.repos) = 2
  /\ Len(fnRet.languages) = 2
  /\ fnRet.languages[1].value = 2
  /\ fnRet.languages[2].value = 2

-----------------------------------------------------------------------------
(* Properties of calculateComputedStats *)

ComputedReturned == fn = "calculateComputedStats" /\ fnPc = "returned"

\* the number of repositories of the list that have the flag
RECURSIVE WithFlag(_, _)
WithFlag(list, flag) ==
  IF list = <<>> THEN 0
  ELSE (IF Head(list)[flag] THEN 1 ELSE 0) + WithFlag(Tail(list), flag)

\* the number of repositories of the list whose timestamp is of the year
RECURSIVE StampedIn(_, _, _)
StampedIn(list, field, year) ==
  IF list = <<>> THEN 0
  ELSE (IF Head(list)[field][1] = year THEN 1 ELSE 0)
       + StampedIn(Tail(list), field, year)

\* the number of repositories of the list with a star
RECURSIVE Starred(_)
Starred(list) ==
  IF list = <<>> THEN 0
  ELSE (IF Head(list).stars > 0 THEN 1 ELSE 0) + Starred(Tail(list))

\* C23: the counts of calculateComputedStats agree with the repository
\* list: totalRepos is its length, publicRepos + privateRepos = totalRepos,
\* originalRepos = totalRepos - forkedRepos, each of archivedRepos,
\* forkedRepos, reposWithStars, activeRepos and reposCreatedThisYear is the
\* number of repositories with that flag, and every count is within
\* 0..totalRepos.
C23_RepoCountsConsistent ==
  ComputedReturned =>
    LET list == fnArgs.repoInfoList
        year == fnArgs.currentYear IN
    /\ fnRet.totalRepos = Len(list)
    /\ fnRet.publicRepos + fnRet.privateRepos = fnRet.totalRepos
    /\ fnRet.privateRepos = WithFlag(list, "isPrivate")
    /\ fnRet.originalRepos = fnRet.totalRepos - fnRet.forkedRepos
    /\ fnRet.archivedRepos = WithFlag(list, "isArchived")
    /\ fnRet.forkedRepos = WithFlag(list, "isFork")
    /\ fnRet.reposWithStars = Starred(list)
    /\ fnRet.activeRepos = StampedIn(list, "updatedAt", year)
    /\ fnRet.reposCreatedThisYear = StampedIn(list, "createdAt", year)
    /\ \A c \in {fnRet.publicRepos, fnRet.privateRepos, fnRet.archivedRepos,
                 fnRet.forkedRepos, fnRet.originalRepos, fnRet.reposWithStars,
                 fnRet.activeRepos, fnRet.reposCreatedThisYear} :
         0 <= c /\ c <= fnRet.totalRepos

\* two repositories created before this year: one private, one a fork, one
\* archived, one with stars, one updated this year
C23_Witness ==
  /\ ComputedReturned
  /\ fnRet.totalRepos = 2
  /\ fnRet.privateRepos = 1
  /\ fnRet.originalRepos = 1
  /\ fnRet.archivedRepos = 1
  /\ fnRet.reposWithStars = 1
  /\ fnRet.activeRepos = 1
  /\ fnRet.reposCreatedThisYear = 0

\* the contributions of the entries of the breakdown whose month is of the year
RECURSIVE YearTotal(_, _)
YearTotal(breakdown, year) ==
  IF breakdown = <<>> THEN 0
  ELSE (IF Head(breakdown).month[1] = year THEN Head(breakdown).contributions ELSE 0)
       + YearTotal(Tail(breakdown), year)

\* C24: contributionsThisYear and contributionsLastYear are the sums of the
\* monthly-breakdown entries of the current and of the prior year;
\* yearOverYearGrowth is (thisYear - lastYear) / lastYear * 10000 rounded to
\* the nearest whole number and divided by 100 when contributionsLastYear is
\* positive, and null otherwise.
C24_YearOverYearGrowth ==
  ComputedReturned =>
    LET breakdown == fnArgs.contributionStats.monthlyBreakdown
        thisYear == YearTotal(breakdown, fnArgs.currentYear)
        lastYear == YearTotal(breakdown, fnArgs.currentYear - 1) IN
    /\ fnRet.contributionsThisYear = thisYear
    /\ fnRet.contributionsLastYear = lastYear
    /\ IF lastYear > 0
         THEN /\ fnRet.yearOverYearGrowth # Null
              /\ fnRet.yearOverYearGrowth.value \in Int
              /\ IsNearest(fnRet.yearOverYearGrowth.value,
                           (thisYear - lastYear) * 10000, lastYear)
         ELSE fnRet.yearOverYearGrowth = Null

\* a year with a third of the contributions of the year before: the growth
\* is negative and had to be rounded
C24_Witness ==
  /\ ComputedReturned
  /\ fnRet.contributionsLastYear = 3
  /\ fnRet.contributionsThisYear = 1
  /\ fnRet.yearOverYearGrowth = NotNull(-6667)

\* contributions this year and none the year before
C24_Witness_Null ==
  /\ ComputedReturned
  /\ fnRet.contributionsThisYear > 0
  /\ fnRet.contributionsLastYear = 0
  /\ Len(fnArgs.contributionStats.monthlyBreakdown) >= 2
  /\ fnRet.yearOverYearGrowth = Null

\* C25: mostProductiveMonth is the entry of the monthly breakdown with the
\* greatest contribution count, the first such entry in the order of the
\* breakdown, and it is null exactly when the breakdown is empty.
C25_MostProductiveMonth ==
  ComputedReturned =>
    LET breakdown == fnArgs.contributionStats.monthlyBreakdown IN
    /\ fnRet.mostProductiveMonth = Null <=> breakdown = <<>>
    /\ breakdown # <<>> =>
         \E k \in 1..Len(breakdown) :
           /\ fnRet.mostProductiveMonth = NotNull(breakdown[k])
           /\ \A j \in 1..Len(breakdown) :
                breakdown[j].contributions <= breakdown[k].contributions
           /\ \A j \in 1..(k - 1) :
                breakdown[j].contributions < breakdown[k].contributions

\* the greatest count occurs twice, first in the second entry
C25_Witness ==
  /\ ComputedReturned
  /\ LET breakdown == fnArgs.contributionStats.monthlyBreakdown IN
       /\ Len(breakdown) >= 3
       /\ breakdown[1].contributions < breakdown[2].contributions
       /\ breakdown[3].contributions = breakdown[2].contributions
       /\ fnRet.mostProductiveMonth = NotNull(breakdown[2])

\* a breakdown whose months are all without a contribution
C25_Witness_AllZero ==
  /\ ComputedReturned
  /\ LET breakdown == fnArgs.contributionStats.monthlyBreakdown IN
       /\ Len(breakdown) >= 2
       /\ \A k \in 1..Len(breakdown) : breakdown[k].contributions = 0
       /\ fnRet.mostProductiveMonth = NotNull(breakdown[1])

\* every topic of the input, as <<repository, position>>
InputTopics ==
  {rk \in (1..MaxRepos) \X (1..Len(Letters)) :
     /\ rk[1] <= Len(fnArgs.repoInfoList)
     /\ rk[2] <= Len(fnArgs.repoInfoList[rk[1]].topics)}

TopicAt(rk) == fnArgs.repoInfoList[rk[1]].topics[rk[2]]

DistinctTopics == {TopicAt(rk) : rk \in InputTopics}

\* the number of repositories whose topics contain the topic
ReposWithTopic(topic) ==
  Cardinality({r \in 1..Len(fnArgs.repoInfoList) :
                 \E k \in 1..Len(fnArgs.repoInfoList[r].topics) :
                   fnArgs.repoInfoList[r].topics[k] = topic})

\* where the topic is first seen in the input
FirstSeenAt(topic) ==
  CHOOSE a \in InputTopics :
    /\ TopicAt(a) = topic
    /\ \A b \in InputTopics : TopicAt(b) = topic /\ b # a => EdgeBefore(a, b)

\* topic a goes before topic b in the frequency table: a greater count, or
\* the same count and seen first
RanksBefore(a, b) ==
  \/ ReposWithTopic(a) > ReposWithTopic(b)
  \/ /\ ReposWithTopic(a) = ReposWithTopic(b)
     /\ EdgeBefore(FirstSeenAt(a), FirstSeenAt(b))

\* C26: the count of a topic is the number of repositories whose topics
\* contain it; topTopics is in descending order of count, ties in first-seen
\* order, and holds the first 20 topics of that order at most; allTopics
\* holds every distinct topic once, in alphabetical order, and totalTopics
\* is its length.
C26_TopicsCountedAndSorted ==
  ComputedReturned =>
    LET topTopics == fnRet.topTopics
        allTopics == fnRet.allTopics
        top == {topTopics[k].name : k \in 1..Len(topTopics)} IN
    /\ \A k \in 1..Len(topTopics) :
         /\ topTopics[k].name \in DistinctTopics
         /\ topTopics[k].count = ReposWithTopic(topTopics[k].name)
    /\ \A i, j \in 1..Len(topTopics) :
         i < j => RanksBefore(topTopics[i].name, topTopics[j].name)
    /\ Len(topTopics) = Min(20, Cardinality(DistinctTopics))
    /\ \A t \in DistinctTopics \ top : \A u \in top : RanksBefore(u, t)
    /\ {allTopics[k] : k \in 1..Len(allTopics)} = DistinctTopics
    /\ \A i, j \in 1..Len(allTopics) :
         i < j => StringBefore(allTopics[i], allTopics[j])
    /\ fnRet.totalTopics = Len(allTopics)

\* more than 20 topics, the one seen last being the most frequent: it comes
\* first and the last of the others is cut off
C26_Witness ==
  /\ ComputedReturned
  /\ fnRet.totalTopics = 21
  /\ Len(fnRet.topTopics) = 20
  /\ fnRet.topTopics[1] = [name |-> <<"u">>, count |-> 2]
  /\ fnRet.topTopics[20] = [name |-> <<"s">>, count |-> 1]
  /\ fnArgs.repoInfoList[1].topics = ManyTopics

\* topics given out of alphabetical order, one a prefix of the other
C26_Witness_Alphabetical ==
  /\ ComputedReturned
  /\ Len(fnArgs.repoInfoList) = 2
  /\ fnArgs.repoInfoList[1].topics = <<<<"a", "p", "i">>, <<"a", "p">>>>
  /\ fnArgs.repoInfoList[2].topics = <<<<"a", "-", "1">>, <<"a", "p">>>>
  /\ fnRet.allTopics = <<<<"a", "-", "1">>, <<"a", "p">>, <<"a", "p", "i">>>>
  /\ fnRet.topTopics[1] = [name |-> <<"a", "p">>, count |-> 2]

-----------------------------------------------------------------------------
(* Properties of the pipeline *)

PipelineRanTwice == fn = "pipeline" /\ Len(fnRet) = 2

\* an output without its fetchedAt
ButFetchedAt(output) == [output EXCEPT !.fetchedAt = <<>>]

\* C27: two runs of the pipeline on the same recorded responses give the
\* same output in every field but fetchedAt.
C27_RerunGivesSameOutput ==
  PipelineRanTwice => ButFetchedAt(fnRet[1]) = ButFetchedAt(fnRet[2])

\* the two runs were on the same day and the second parsed the responses
\* afresh
SameDayParsedAfresh ==
  /\ fnRet[1].fetchedAt[1] = fnRet[2].fetchedAt[1]
  /\ fnArgs.sources[2] = "parsed"

\* C27 for two runs on the same day, the second on responses parsed afresh
C27_RerunGivesSameOutput_SameDayParsedAfresh ==
  (PipelineRanTwice /\ SameDayParsedAfresh) => C27_RerunGivesSameOutput

\* two runs on 2 February over two years with contributions and a streak
C27_SameDayParsedAfresh_Witness ==
  /\ PipelineRanTwice
  /\ SameDayParsedAfresh
  /\ Len(fnArgs.recorded) = 2
  /\ fnArgs.repoInfoList # <<>>
  /\ fnRet[1].fetchedAt[1] = <<2024, 2, 2>>
  /\ fnRet[2].contributionStats.currentStreak >= 2
  /\ fnRet[2].totalContributions >= 3

====
